---- MODULE Spec2Model ----
(***************************************************************************)
(* Model of the retrying HTTP client of pkg/httpx (realClient.Do and the   *)
(* helpers it calls).  One behaviour is one client built by New and one    *)
(* Do call on it; the transport (c.http.Do), the body reader and the       *)
(* caller's context are the environment.                                   *)
(***************************************************************************)
EXTENDS Integers, Sequences, FiniteSets, TLC

\* ------------------------------------------------------------------ bounds

\* Largest MaxRetries a caller passes to New in this model.
MaxRetriesBound == 2

\* ------------------------------------------------------------- error values

\* An error value: msg is the text of the outermost layer, is the set of
\* sentinels errors.Is matches along the %w chain, detail identifies the
\* underlying cause the message carries (attempt number of a transport or
\* body-read error, status code of a synthesized status error).
NilErr == [msg |-> "", is |-> {}, detail |-> 0]

ErrEmptyURL == [msg |-> "httpx: empty URL", is |-> {"ErrEmptyURL"}, detail |-> 0]

ErrInvalidURL == [msg |-> "httpx: invalid URL", is |-> {"ErrInvalidURL"}, detail |-> 0]

ErrMaxRetries == [msg |-> "httpx: max retries reached", is |-> {"ErrMaxRetries"}, detail |-> 0]

ErrNonRetryableResp == [msg |-> "httpx: non-retryable response", is |-> {"ErrNonRetryableResp"}, detail |-> 0]

\* ctx.Err() of a cancelled or expired context.
CtxErr == [msg |-> "context", is |-> {"context"}, detail |-> 0]

\* The error url.Parse returns for a URL whose first character is a colon.
ParseErr == [msg |-> "missing protocol scheme", is |-> {"url.Error"}, detail |-> 0]

\* The error http.NewRequestWithContext returns for an invalid method.
MethodErr == [msg |-> "net/http: invalid method", is |-> {"method"}, detail |-> 0]

\* The error c.http.Do returns on attempt number n (1-based) with a live context.
TransportErr(n) == [msg |-> "transport", is |-> {"transport"}, detail |-> n]

\* The error io.ReadAll returns on attempt number n when the connection fails.
BodyReadErr(n) == [msg |-> "read", is |-> {"read"}, detail |-> n]

\* fmt.Errorf("httpx: retryable status %d", status)
StatusErr(status) == [msg |-> "httpx: retryable status", is |-> {}, detail |-> status]

\* fmt.Errorf("%w: %v", sentinel, e): matches the sentinel only, carries e's text.
ErrorfWV(sentinel, e) == [msg |-> sentinel.msg, is |-> sentinel.is, detail |-> e.detail]

\* fmt.Errorf("%w: " + prefix + ": %w", ErrMaxRetries, e): matches ErrMaxRetries too.
ErrorfWMaxRetries(prefix, e) ==
    [msg |-> prefix, is |-> e.is \cup {"ErrMaxRetries"}, detail |-> e.detail]

\* fmt.Errorf(prefix + ": %w", e): matches whatever e matches.
ErrorfW(prefix, e) == [msg |-> prefix, is |-> e.is, detail |-> e.detail]

\* errors.Is(e, sentinel)
ErrorsIs(e, sentinel) == sentinel.is # {} /\ sentinel.is \subseteq e.is

\* ------------------------------------------------------------------- URLs

\* A string is a sequence of tokens; the separators are tokens of their own.
EmptyString == <<>>

\* The tokens that are query keys, in ascending alphabetical order.
KeyOrder == <<"a", "b", "c">>

EmptyParams == [k \in {} |-> ""]

\* strings.Index for tokens: position of the first tok in s, 0 when absent.
RECURSIVE IndexFrom(_, _, _)
IndexFrom(s, tok, i) ==
    IF i > Len(s) THEN 0
    ELSE IF s[i] = tok THEN i
    ELSE IndexFrom(s, tok, i + 1)

IndexOf(s, tok) == IndexFrom(s, tok, 1)

\* url.Parse without the check for a leading colon.
urlParseNoSchemeCheck(raw) ==
    LET c == IndexOf(raw, ":")
        rest == IF c > 0 THEN SubSeq(raw, c + 1, Len(raw)) ELSE raw
        q == IndexOf(rest, "?")
    IN  [err |-> NilErr,
         Scheme |-> IF c > 0 THEN SubSeq(raw, 1, c - 1) ELSE <<>>,
         Rest |-> IF q > 0 THEN SubSeq(rest, 1, q - 1) ELSE rest,
         RawQuery |-> IF q > 0 THEN SubSeq(rest, q + 1, Len(rest)) ELSE <<>>]

\* url.Parse: scheme up to the first colon (a leading colon is an error),
\* the query after the first question mark.
urlParse(raw) ==
    LET c == IndexOf(raw, ":")
        rest == IF c > 0 THEN SubSeq(raw, c + 1, Len(raw)) ELSE raw
        q == IndexOf(rest, "?")
    IN  IF c = 1
        THEN [err |-> ParseErr, Scheme |-> <<>>, Rest |-> <<>>, RawQuery |-> <<>>]
        ELSE [err |-> NilErr,
              Scheme |-> IF c > 0 THEN SubSeq(raw, 1, c - 1) ELSE <<>>,
              Rest |-> IF q > 0 THEN SubSeq(rest, 1, q - 1) ELSE rest,
              RawQuery |-> IF q > 0 THEN SubSeq(rest, q + 1, Len(rest)) ELSE <<>>]

\* url.QueryUnescape: "+" and %20 decode to a space, %zz is no valid escape.
queryUnescape(tok) ==
    CASE tok = "%zz" -> [ok |-> FALSE, val |-> ""]
      [] tok \in {"x+y", "x%20y"} -> [ok |-> TRUE, val |-> "x y"]
      [] OTHER -> [ok |-> TRUE, val |-> tok]

\* url.QueryEscape
queryEscape(tok) == IF tok = "x y" THEN "x+y" ELSE tok

\* url.Values.Set
valuesSet(q, k, v) == [x \in DOMAIN q \cup {k} |-> IF x = k THEN <<v>> ELSE q[x]]

\* url.Values.Add
valuesAdd(q, k, v) ==
    [x \in DOMAIN q \cup {k} |->
        IF x = k THEN (IF k \in DOMAIN q THEN Append(q[k], v) ELSE <<v>>) ELSE q[x]]

\* URL.Query (url.ParseQuery with its error dropped): the pairs k=v separated
\* by &, in order, unescaped; a pair whose key or value does not unescape is
\* skipped.
RECURSIVE parseQuery(_, _)
parseQuery(rawq, acc) ==
    IF rawq = <<>> THEN acc
    ELSE LET amp == IndexOf(rawq, "&")
             seg == IF amp = 0 THEN rawq ELSE SubSeq(rawq, 1, amp - 1)
             rest == IF amp = 0 THEN <<>> ELSE SubSeq(rawq, amp + 1, Len(rawq))
             key == queryUnescape(seg[1])
             value == queryUnescape(IF Len(seg) >= 3 THEN seg[3] ELSE "")
         IN  IF seg = <<>> THEN parseQuery(rest, acc)
             ELSE IF ~key.ok \/ ~value.ok THEN parseQuery(rest, acc)
             ELSE parseQuery(rest, valuesAdd(acc, key.val, value.val))

\* url.Values.Encode: keys in ascending order, each value as k=v, joined by &.
RECURSIVE encodeValues(_, _, _)
encodeValues(q, k, vals) ==
    IF vals = <<>> THEN <<>>
    ELSE <<"&", queryEscape(k), "=", queryEscape(Head(vals))>>
         \o encodeValues(q, k, Tail(vals))

RECURSIVE encodeFrom(_, _)
encodeFrom(q, i) ==
    IF i > Len(KeyOrder) THEN <<>>
    ELSE (IF KeyOrder[i] \in DOMAIN q
          THEN encodeValues(q, KeyOrder[i], q[KeyOrder[i]]) ELSE <<>>)
         \o encodeFrom(q, i + 1)

valuesEncode(q) ==
    LET e == encodeFrom(q, 1) IN IF e = <<>> THEN <<>> ELSE Tail(e)

\* q.Set(k, v) for every entry of params (the keys are distinct, so the
\* map's iteration order does not matter).
RECURSIVE setAll(_, _, _)
setAll(q, params, keys) ==
    IF keys = {} THEN q
    ELSE LET k == CHOOSE x \in keys : TRUE
         IN  setAll(valuesSet(q, k, params[k]), params, keys \ {k})

\* URL.String
urlString(u) ==
    (IF u.Scheme # <<>> THEN u.Scheme \o <<":">> ELSE <<>>)
    \o u.Rest
    \o (IF u.RawQuery # <<>> THEN <<"?">> \o u.RawQuery ELSE <<>>)

buildURL(raw, params) ==
    LET u == urlParse(raw)
    IN  IF u.err # NilErr THEN [url |-> EmptyString, err |-> u.err]
        ELSE IF DOMAIN params # {}
        THEN [url |-> urlString([u EXCEPT !.RawQuery =
                        valuesEncode(setAll(parseQuery(u.RawQuery, EmptyParams),
                                            params, DOMAIN params))]),
              err |-> NilErr]
        ELSE [url |-> urlString(u), err |-> NilErr]

\* ---------------------------------------------------------------- headers

\* A header map: a function from key tokens to value tokens.
EmptyHeaders == [k \in {} |-> ""]

\* Lower-case form of a header key (the folding strings.EqualFold compares by).
lower(k) ==
    CASE k \in {"User-Agent", "user-agent", "USER-AGENT"} -> "user-agent"
      [] k \in {"Accept", "accept"} -> "accept"
      [] k \in {"Accept-Language", "accept-language"} -> "accept-language"
      [] k \in {"X-Custom", "x-custom"} -> "x-custom"
      [] k \in {"X-Base", "x-base"} -> "x-base"
      [] OTHER -> k

\* textproto.CanonicalMIMEHeaderKey, which http.Header.Set applies to the key.
canonicalKey(k) ==
    CASE lower(k) = "user-agent" -> "User-Agent"
      [] lower(k) = "accept" -> "Accept"
      [] lower(k) = "accept-language" -> "Accept-Language"
      [] lower(k) = "x-custom" -> "X-Custom"
      [] lower(k) = "x-base" -> "X-Base"
      [] OTHER -> k

\* http.Header.Set
headerSet(h, k, v) ==
    [x \in DOMAIN h \cup {canonicalKey(k)} |-> IF x = canonicalKey(k) THEN v ELSE h[x]]

\* for k, v := range m { req.Header.Set(k, v) }: the set of header maps the
\* loop can end with, one per iteration order of the Go map (the order
\* matters when two keys of m have the same canonical form).
RECURSIVE headerSetAll(_, _, _)
headerSetAll(h, m, keys) ==
    IF keys = {} THEN {h}
    ELSE UNION {headerSetAll(headerSet(h, k, m[k]), m, keys \ {k}) : k \in keys}

headerLookup(h, key) == \E k \in DOMAIN h : lower(k) = lower(key)

\* The User-Agent pickUA falls back to when the pool is empty.
DefaultUA == "Mozilla/5.0 (iPhone)"

\* The values pickUA may return for the pool uas.
pickUA(uas) == IF Len(uas) = 0 THEN {DefaultUA} ELSE {uas[i] : i \in 1..Len(uas)}

\* autoFill that leaves a header alone when h, filled from BaseHeaders, holds
\* it already.
autoFillKeepBase(h, customHeaders, ua) ==
    LET h1 == IF ~headerLookup(customHeaders, "User-Agent") /\ "User-Agent" \notin DOMAIN h
              THEN headerSet(h, "User-Agent", ua) ELSE h
        h2 == IF ~headerLookup(customHeaders, "Accept") /\ "Accept" \notin DOMAIN h
              THEN headerSet(h1, "Accept", "*/*") ELSE h1
    IN  IF ~headerLookup(customHeaders, "Accept-Language") /\ "Accept-Language" \notin DOMAIN h
        THEN headerSet(h2, "Accept-Language", "en-US,en;q=0.9") ELSE h2

\* The three auto-filled headers set on h unless customHeaders holds the key
\* under any letter case; ua is what pickUA returns when it is called.
autoFill(h, customHeaders, ua) ==
    LET h1 == IF ~headerLookup(customHeaders, "User-Agent")
              THEN headerSet(h, "User-Agent", ua) ELSE h
        h2 == IF ~headerLookup(customHeaders, "Accept")
              THEN headerSet(h1, "Accept", "*/*") ELSE h1
    IN  IF ~headerLookup(customHeaders, "Accept-Language")
        THEN headerSet(h2, "Accept-Language", "en-US,en;q=0.9") ELSE h2

\* setRequestHeaders with the caller's headers applied first and BaseHeaders last.
setRequestHeadersBaseLast(base, customHeaders, ua) ==
    UNION {headerSetAll(autoFill(h0, customHeaders, ua), base, DOMAIN base) :
            h0 \in headerSetAll(EmptyHeaders, customHeaders, DOMAIN customHeaders)}

\* The header maps a request can carry after setRequestHeaders: BaseHeaders,
\* then the auto-filled headers, then the caller's headers.
setRequestHeaders(base, customHeaders, ua) ==
    UNION {headerSetAll(autoFill(h0, customHeaders, ua), customHeaders,
                        DOMAIN customHeaders) :
            h0 \in headerSetAll(EmptyHeaders, base, DOMAIN base)}

\* ----------------------------------------------------------------- Config

\* The retry predicates a caller installs as Config.RetryOn in this model:
\* none, one that is true for everything, one that matches status 418 only.
RetryOnChoices == {"nil", "always", "only418"}

\* Config.RetryOn(status, err) for the installed predicate f.
RetryOn(f, status, err) ==
    CASE f = "always" -> TRUE
      [] f = "only418" -> status = 418
      [] OTHER -> FALSE

\* The status codes a server answers with in this model.
Statuses == {200, 418, 500}

\* The RetryStatus lists a caller passes in this model.
RetryStatusChoices == {{}, {418}, {500}}

\* normalizeConfig that installs the default RetryStatus whenever the list is
\* empty, whether or not RetryOn is set.
normalizeConfigIgnoreRetryOn(c) ==
    [c EXCEPT
        !.Timeout = IF c.Timeout <= 0 THEN 10000 ELSE c.Timeout,
        !.MaxRetries = IF c.MaxRetries < 0 THEN 0 ELSE c.MaxRetries,
        !.BackoffInitial = IF c.BackoffInitial <= 0 THEN 1000 ELSE c.BackoffInitial,
        !.BackoffMax = IF c.BackoffMax <= 0 THEN 30000 ELSE c.BackoffMax,
        !.RetryStatus = IF c.RetryStatus = {}
                        THEN {429} \cup (500..599) ELSE c.RetryStatus]

\* normalizeConfig that also rescales a Timeout that is set.
normalizeConfigRescale(c) ==
    [c EXCEPT
        !.Timeout = IF c.Timeout <= 0 THEN 10000 ELSE c.Timeout * 1000,
        !.MaxRetries = IF c.MaxRetries < 0 THEN 0 ELSE c.MaxRetries,
        !.BackoffInitial = IF c.BackoffInitial <= 0 THEN 1000 ELSE c.BackoffInitial,
        !.BackoffMax = IF c.BackoffMax <= 0 THEN 30000 ELSE c.BackoffMax,
        !.RetryStatus = IF c.RetryStatus = {} /\ c.RetryOn = "nil"
                        THEN {429} \cup (500..599) ELSE c.RetryStatus]

\* Durations are in milliseconds.
normalizeConfig(c) ==
    [c EXCEPT
        !.Timeout = IF c.Timeout <= 0 THEN 10000 ELSE c.Timeout,
        !.MaxRetries = IF c.MaxRetries < 0 THEN 0 ELSE c.MaxRetries,
        !.BackoffInitial = IF c.BackoffInitial <= 0 THEN 1000 ELSE c.BackoffInitial,
        !.BackoffMax = IF c.BackoffMax <= 0 THEN 30000 ELSE c.BackoffMax,
        !.RetryStatus = IF c.RetryStatus = {} /\ c.RetryOn = "nil"
                        THEN {429} \cup (500..599) ELSE c.RetryStatus]

\* New: the client keeps the normalized copy of the Config.
New(c) == normalizeConfig(c)

\* The Configs callers pass to New.
Configs ==
    [Timeout : {0}, MaxRetries : -1..MaxRetriesBound, BackoffInitial : {0},
     BackoffMax : {0},
     UserAgents : {<<>>, <<"ua1", "ua2">>},
     BaseHeaders : {[k \in {"User-Agent", "X-Base"} |->
                        IF k = "X-Base" THEN "1" ELSE "base-ua"]},
     RetryStatus : RetryStatusChoices, RetryOn : RetryOnChoices]

\* ---------------------------------------------------------------- Requests

\* http.NewRequestWithContext accepts a method made of token characters only.
validMethod(m) == m \in {"GET", "POST"}

\* Request.URL values: empty, unparsable, and a URL with a query string.
RawURLs ==
    { EmptyString,
      <<":", "//invalid">>,
      <<"http", ":", "//h/p", "?", "b", "=", "1">> }

\* The requests callers pass to Do: the method left empty or invalid.
Requests ==
    [Method : {"", "B D"}, URL : RawURLs,
     Params : {EmptyParams, [k \in {"a"} |-> "2"]},
     Headers : {EmptyHeaders,
                [k \in {"user-agent", "X-Custom"} |->
                    IF k = "X-Custom" THEN "v" ELSE "mine"],
                [k \in {"accept", "x-base", "USER-AGENT", "User-Agent"} |->
                    CASE k = "accept" -> "text/html"
                      [] k = "x-base" -> "2"
                      [] k = "USER-AGENT" -> "mine-upper"
                      [] OTHER -> "mine-canon"]}]

ZeroResponse == [Status |-> 0, Body |-> <<>>, Headers |-> <<>>, URL |-> EmptyString]

\* What the server sends on attempt number n when it answers with status s.
ServerBody(n, s) == <<s, n>>

ServerHeader(n, s) == <<"X-Attempt", n>>

\* ------------------------------------------------------------------- state

VARIABLES
    cfg,        \* realClient.cfg
    req,        \* the Request r given to Do (r.Method after defaulting)
    ctxDone,    \* ctx.Err() != nil
    ctxAtCall,  \* whether ctx was already done when Do was called
    pc,         \* where the Do call stands
    u,          \* the URL buildURL returned
    attempt,    \* the loop variable
    reqHeader,  \* req.Header of the current attempt's *http.Request
    lastErr,    \* the loop's lastErr
    resp,       \* the *http.Response of the current attempt
    ret,        \* what Do returned: [res, err]
    hist,       \* one record per call of c.http.Do, in order
    sleeps,     \* one record per call of sleepBackoff, in order
    callerCfg,  \* the Config the caller handed to New or NewWithHTTP
    reqBody,    \* the io.Reader r.Body: its bytes and how many were read
    calls,      \* per concurrent Do call on the client: its local state
    \* package auth
    jwtCfg,     \* the *JWTConfig the middleware was built with
    now,        \* time.Now(), in whole seconds
    authHeader, \* the request's Authorization header
    authPc,     \* where the request stands in the middleware chain
    authStatus, \* the status code written to the ResponseWriter (0: none yet)
    nextCalls,  \* how often next.ServeHTTP ran
    nextCtx,    \* the value under jwtUserKey in the context next received
    \* package obs
    globalObs,  \* the package variable globalObs
    obsCfg,     \* per goroutine: the Config passed to Init
    initPc,     \* per goroutine: where its Init call stands
    initObs,    \* per goroutine: the local variable obs of Init
    initRet,    \* per goroutine: what Init returned
    objects,    \* the *Observability objects whose providers were started
    \* package events, KafkaConsumer.Run
    reads,      \* the messages ReadMessage has returned, in order
    handled,    \* the Handle calls made, in order
    runRet,     \* what Run returned, "running" before that
    \* package auth, RefreshJWTToken
    refreshRet, \* what RefreshJWTToken returned
    \* package obs, Shutdown
    shutdownOnce, \* per *Observability: the state of its shutdownOnce
    isShutdown,   \* per *Observability: the field isShutdown
    providerOps,  \* per *Observability: the calls made on its providers
    shutPc,       \* per goroutine: where its Shutdown call stands
    shutRet       \* per goroutine: what Shutdown returned

httpVars == <<cfg, req, ctxDone, ctxAtCall, pc, u, attempt, reqHeader, lastErr, resp, ret, hist, sleeps, callerCfg, reqBody, calls>>

authVars == <<jwtCfg, now, authHeader, authPc, authStatus, nextCalls, nextCtx>>

obsVars == <<globalObs, obsCfg, initPc, initObs, initRet, objects>>

kafkaVars == <<reads, handled, runRet>>

shutdownVars == <<shutdownOnce, isShutdown, providerOps, shutPc, shutRet>>

moreVars == <<kafkaVars, refreshRet, shutdownVars>>

vars == <<httpVars, authVars, obsVars, moreVars>>

\* No consumer runs, no token is being refreshed, nobody calls Shutdown.
MoreIdle ==
    /\ reads = <<>>
    /\ handled = <<>>
    /\ runRet = "idle"
    /\ refreshRet = [tok |-> [form |-> "empty"], err |-> "none", at |-> 0]
    /\ shutdownOnce = <<>>
    /\ isShutdown = <<>>
    /\ providerOps = <<>>
    /\ shutPc = <<>>
    /\ shutRet = <<>>

\* No request is in the middleware chain.
AuthIdle ==
    /\ jwtCfg = [SecretKey |-> ""]
    /\ now = 0
    /\ authHeader = [scheme |-> "", tok |-> [form |-> "empty"]]
    /\ authPc = "idle"
    /\ authStatus = 0
    /\ nextCalls = 0
    /\ nextCtx = [ok |-> FALSE]

\* No goroutine calls obs.Init.
ObsIdle ==
    /\ globalObs = 0
    /\ obsCfg = <<>>
    /\ initPc = <<>>
    /\ initObs = <<>>
    /\ initRet = <<>>
    /\ objects = {}

NoResp == [StatusCode |-> 0, Body |-> <<>>, Header |-> <<>>]

NoReturn == [res |-> ZeroResponse, err |-> NilErr]

\* A nil r.Body.
NoBody == [data |-> <<>>, off |-> 0]

\* The bytes the reader b still yields.
unread(b) == SubSeq(b.data, b.off + 1, Len(b.data))

Init ==
    /\ callerCfg \in Configs
    /\ cfg = New(callerCfg)
    /\ AuthIdle
    /\ ObsIdle
    /\ MoreIdle
    /\ req \in Requests
    /\ ctxDone \in BOOLEAN
    /\ ctxAtCall = ctxDone
    /\ pc = "call"
    /\ u = EmptyString
    /\ attempt = 0
    /\ reqHeader = EmptyHeaders
    /\ lastErr = NilErr
    /\ resp = NoResp
    /\ ret = NoReturn
    /\ hist = <<>>
    /\ sleeps = <<>>
    /\ reqBody = NoBody
    /\ calls = <<>>

\* Request.URL values for the URL-building runs: no query, one pair, pairs
\* out of order, a repeated key, a key without a value, an escaped value, and
\* a pair whose value is no valid escape.
QueryURLs ==
    { <<"http", ":", "//h/p">>,
      <<"http", ":", "//h/p", "?", "b", "=", "1">>,
      <<"http", ":", "//h/p", "?", "c", "=", "3", "&", "a", "=", "1">>,
      <<"http", ":", "//h/p", "?", "a", "=", "1", "&", "a", "=", "2">>,
      <<"http", ":", "//h/p", "?", "b">>,
      <<"http", ":", "//h/p", "?", "b", "=", "x%20y">>,
      <<"http", ":", "//h/p", "?", "c", "=", "%zz", "&", "b", "=", "1">> }

\* Request.Params values for the URL-building runs: every map over the keys
\* a, b, c with the values 2 and "x y".
QueryParams ==
    UNION {[ks -> {"2", "x y"}] : ks \in SUBSET {"a", "b", "c"}}

\* One client with one retry and the default policy, and a live context; the
\* request ranges over QueryURLs and QueryParams.
InitURL ==
    /\ callerCfg = [Timeout |-> 0, MaxRetries |-> 1, BackoffInitial |-> 0,
                    BackoffMax |-> 0, UserAgents |-> <<>>,
                    BaseHeaders |-> EmptyHeaders,
                    RetryStatus |-> {}, RetryOn |-> "nil"]
    /\ cfg = New(callerCfg)
    /\ AuthIdle
    /\ ObsIdle
    /\ MoreIdle
    /\ req \in [Method : {""}, URL : QueryURLs, Params : QueryParams,
                 Headers : {EmptyHeaders}]
    /\ ctxDone = FALSE
    /\ ctxAtCall = FALSE
    /\ pc = "call"
    /\ u = EmptyString
    /\ attempt = 0
    /\ reqHeader = EmptyHeaders
    /\ lastErr = NilErr
    /\ resp = NoResp
    /\ ret = NoReturn
    /\ hist = <<>>
    /\ sleeps = <<>>
    /\ reqBody = NoBody
    /\ calls = <<>>

\* ------------------------------------------------------------ retry policy

\* A policy that consults the status list even when RetryOn is set.
shouldRetryAlsoList(status, err) ==
    IF cfg.RetryOn # "nil"
    THEN RetryOn(cfg.RetryOn, status, err) \/ status \in cfg.RetryStatus
    ELSE IF err # NilErr THEN TRUE
    ELSE status \in cfg.RetryStatus

\* A policy without the rule that an error is retried.
shouldRetryNoErrRule(status, err) ==
    IF cfg.RetryOn # "nil" THEN RetryOn(cfg.RetryOn, status, err)
    ELSE status \in cfg.RetryStatus

shouldRetry(status, err) ==
    IF cfg.RetryOn # "nil" THEN RetryOn(cfg.RetryOn, status, err)
    ELSE IF err # NilErr THEN TRUE
    ELSE status \in cfg.RetryStatus

\* The retry guard counting one attempt too many as made.
attemptsRemainOffByOne == attempt + 1 < cfg.MaxRetries

\* attempt < c.cfg.MaxRetries: another iteration may follow this one.
attemptsRemain == attempt < cfg.MaxRetries

\* The max-retries guard without its attempt > 0 condition.
retriesExhaustedFirstAttempt(status) ==
    /\ shouldRetry(status, NilErr)
    /\ attempt >= cfg.MaxRetries

\* The max-retries guard without its retry-policy condition.
retriesExhaustedAnyStatus(status) ==
    /\ attempt > 0
    /\ attempt >= cfg.MaxRetries

\* The guard of the dedicated max-retries return after a received status.
retriesExhausted(status) ==
    /\ shouldRetry(status, NilErr)
    /\ attempt > 0
    /\ attempt >= cfg.MaxRetries

\* A context check that never sees the cancellation.
ctxErrIgnored == NilErr

\* ctx.Err()
ctxErr == IF ctxDone THEN CtxErr ELSE NilErr

\* A Response that reports the caller's raw URL instead of the built one.
makeResponseRawURL(rsp, body, url) ==
    [Status |-> rsp.StatusCode, Body |-> body, Headers |-> rsp.Header, URL |-> req.URL]

\* The Response built from the received response, the bytes read and u.
makeResponse(rsp, body, url) ==
    [Status |-> rsp.StatusCode, Body |-> body, Headers |-> rsp.Header, URL |-> url]

\* ----------------------------------------------------------------- actions

\* return res, err
Return(res, err) ==
    /\ pc' = "done"
    /\ ret' = [res |-> res, err |-> err]

\* sleepBackoff called with the index of the coming attempt.
EnterSleepNextExponent ==
    /\ pc' = "sleep"
    /\ sleeps' = Append(sleeps, [exp |-> attempt + 1, ctxDone |-> ctxDone])
    /\ ret' = ret

\* c.sleepBackoff(attempt): the calling goroutine blocks in time.Sleep.
EnterSleep ==
    /\ pc' = "sleep"
    /\ sleeps' = Append(sleeps, [exp |-> attempt, ctxDone |-> ctxDone])
    /\ ret' = ret

\* The last record of hist with its outcome filled in.
Outcome(kind, status) ==
    [hist EXCEPT ![Len(hist)] =
        [@ EXCEPT !.kind = kind, !.status = status, !.endCtx = ctxDone]]

\* The caller cancels the context, or its deadline passes.
Cancel ==
    /\ UNCHANGED reqBody
    /\ UNCHANGED <<callerCfg, calls, authVars, obsVars, moreVars>>
    /\ pc # "done"
    /\ ~ctxDone
    /\ ctxDone' = TRUE
    /\ UNCHANGED <<cfg, req, ctxAtCall, pc, u, attempt, reqHeader, lastErr, resp, ret, hist, sleeps>>

\* Do up to the loop: the URL checks, the default method, buildURL.
DoStart ==
    /\ UNCHANGED reqBody
    /\ UNCHANGED <<callerCfg, calls, authVars, obsVars, moreVars>>
    /\ pc = "call"
    /\ LET b == buildURL(req.URL, req.Params)
       IN  IF req.URL = EmptyString
           THEN Return(ZeroResponse, ErrEmptyURL) /\ UNCHANGED <<req, u>>
           ELSE IF b.err # NilErr
           THEN /\ Return(ZeroResponse, ErrorfWV(ErrInvalidURL, b.err))
                /\ req' = [req EXCEPT !.Method = IF @ = "" THEN "GET" ELSE @]
                /\ u' = u
           ELSE /\ pc' = "loop"
                /\ req' = [req EXCEPT !.Method = IF @ = "" THEN "GET" ELSE @]
                /\ u' = b.url
                /\ ret' = ret
    /\ UNCHANGED <<cfg, ctxDone, ctxAtCall, attempt, reqHeader, lastErr, resp, hist, sleeps>>

\* The head of one iteration: the loop condition, NewRequestWithContext,
\* setRequestHeaders, and the call of c.http.Do.
LoopHead ==
    /\ UNCHANGED reqBody
    /\ UNCHANGED <<callerCfg, calls, authVars, obsVars, moreVars>>
    /\ pc = "loop"
    /\ IF attempt > cfg.MaxRetries
       THEN Return(ZeroResponse, ErrorfWV(ErrMaxRetries, lastErr))
            /\ UNCHANGED <<hist, reqHeader>>
       ELSE IF ~validMethod(req.Method)
       THEN Return(ZeroResponse, ErrorfW("httpx: build request", MethodErr))
            /\ UNCHANGED <<hist, reqHeader>>
       ELSE /\ pc' = "httpDo"
            /\ \E ua \in pickUA(cfg.UserAgents) :
                reqHeader' \in setRequestHeaders(cfg.BaseHeaders, req.Headers, ua)
            /\ hist' = Append(hist, [kind |-> "pending", status |-> 0,
                                     startCtx |-> ctxDone, endCtx |-> ctxDone,
                                     method |-> req.Method, url |-> u,
                                     sent |-> unread(reqBody)])
            /\ ret' = ret
    /\ UNCHANGED <<cfg, req, ctxDone, ctxAtCall, u, attempt, lastErr, resp, sleeps>>

\* c.http.Do returns an error; the transport has read none, some or all of
\* the body by then.
HttpDoError ==
    /\ \E n \in reqBody.off..Len(reqBody.data) : reqBody' = [reqBody EXCEPT !.off = n]
    /\ UNCHANGED <<callerCfg, calls, authVars, obsVars, moreVars>>
    /\ pc = "httpDo"
    /\ hist' = Outcome("transportErr", 0)
    /\ LET err == IF ctxDone THEN CtxErr ELSE TransportErr(Len(hist))
       IN  IF ctxErr # NilErr
           THEN Return(ZeroResponse, ctxErr) /\ UNCHANGED <<lastErr, sleeps>>
           ELSE IF shouldRetry(0, err) /\ attemptsRemain
           THEN EnterSleep /\ lastErr' = err
           ELSE Return(ZeroResponse, ErrorfW("httpx: request failed", err))
                /\ UNCHANGED <<lastErr, sleeps>>
    /\ UNCHANGED <<cfg, req, ctxDone, ctxAtCall, u, attempt, reqHeader, resp>>

\* c.http.Do returns a response with status s, the request body sent in
\* full.  The transport fails a request whose context was done before the
\* call, so this needs a context that was live when the attempt began.
HttpDoResponse ==
    /\ UNCHANGED <<callerCfg, calls, authVars, obsVars, moreVars>>
    /\ pc = "httpDo"
    /\ ~hist[Len(hist)].startCtx
    /\ reqBody' = [reqBody EXCEPT !.off = Len(reqBody.data)]
    /\ \E s \in Statuses :
        /\ resp' = [StatusCode |-> s, Body |-> ServerBody(Len(hist), s),
                    Header |-> ServerHeader(Len(hist), s)]
        /\ hist' = Outcome("headers", s)
    /\ pc' = "readBody"
    /\ UNCHANGED <<cfg, req, ctxDone, ctxAtCall, u, attempt, reqHeader, lastErr, ret, sleeps>>

\* io.ReadAll(resp.Body) and the rest of the iteration.  The read succeeds,
\* fails with a connection error, or, once the context is done, fails with
\* the context's error; on an error ReadAll hands back the bytes it got
\* before the error.
ReadBody ==
    /\ UNCHANGED reqBody
    /\ UNCHANGED <<callerCfg, calls, authVars, obsVars, moreVars>>
    /\ pc = "readBody"
    /\ \E readErr \in {NilErr, BodyReadErr(Len(hist))}
                       \cup (IF ctxDone THEN {CtxErr} ELSE {}) :
        LET ok == readErr = NilErr
            body == IF ok THEN resp.Body ELSE SubSeq(resp.Body, 1, 1)
            res == makeResponse(resp, body, u)
        IN  /\ hist' = Outcome(IF ok THEN "ok" ELSE "readErr", resp.StatusCode)
            /\ IF readErr # NilErr
               THEN IF shouldRetry(resp.StatusCode, readErr) /\ attemptsRemain
                    THEN EnterSleep /\ lastErr' = readErr
                    ELSE Return(res, ErrorfW("httpx: read body", readErr))
                         /\ UNCHANGED <<lastErr, sleeps>>
               ELSE IF shouldRetry(resp.StatusCode, NilErr) /\ attemptsRemain
               THEN EnterSleep /\ lastErr' = StatusErr(resp.StatusCode)
               ELSE IF retriesExhausted(resp.StatusCode)
               THEN Return(ZeroResponse,
                           ErrorfWV(ErrMaxRetries, StatusErr(resp.StatusCode)))
                    /\ UNCHANGED <<lastErr, sleeps>>
               ELSE Return(res, NilErr) /\ UNCHANGED <<lastErr, sleeps>>
    /\ UNCHANGED <<cfg, req, ctxDone, ctxAtCall, u, attempt, reqHeader, resp>>

\* time.Sleep returns; continue takes the loop to attempt++.
SleepDone ==
    /\ UNCHANGED reqBody
    /\ UNCHANGED <<callerCfg, calls, authVars, obsVars, moreVars>>
    /\ pc = "sleep"
    /\ attempt' = attempt + 1
    /\ pc' = "loop"
    /\ UNCHANGED <<cfg, req, ctxDone, ctxAtCall, u, reqHeader, lastErr, resp, ret, hist, sleeps>>

Next ==
    \/ Cancel
    \/ DoStart
    \/ LoopHead
    \/ HttpDoError
    \/ HttpDoResponse
    \/ ReadBody
    \/ SleepDone

Spec == Init /\ [][Next]_vars

\* ------------------------------------------------------------ sleepBackoff
\* Durations here are whole milliseconds written in two limbs, hi * 10^6 + lo
\* with 0 <= lo < 10^6, so that the 64-bit nanosecond range of time.Duration
\* fits; the float64 arithmetic of sleepBackoff is taken as exact.

\* The largest attempt index handed to sleepBackoff.
AttemptBound == 35

\* rand.Intn(250): the jitter is one of 0 .. 249 milliseconds.
JitterRange == 250

\* A Config duration (milliseconds) in limbs.
big(ms) == [hi |-> ms \div 1000000, lo |-> ms % 1000000]

bigAdd(x, y) ==
    [hi |-> x.hi + y.hi + (x.lo + y.lo) \div 1000000,
     lo |-> (x.lo + y.lo) % 1000000]

bigLeq(x, y) == x.hi < y.hi \/ (x.hi = y.hi /\ x.lo <= y.lo)

\* math.MaxInt64 nanoseconds, in whole milliseconds (9223372036854 ms).
MaxDuration == [hi |-> 9223372, lo |-> 36854]

\* math.MinInt64 nanoseconds, rounded down to whole milliseconds.
MinDuration == [hi |-> -9223373, lo |-> 963145]

\* A whole number of milliseconds that a time.Duration can hold.
inRange(x) == bigLeq(x, MaxDuration)

\* x * math.Pow(2, a); the doubling stops once the value has left the
\* time.Duration range, which it never re-enters.
RECURSIVE mulPow2(_, _)
mulPow2(x, a) ==
    IF a = 0 \/ ~inRange(x) THEN x ELSE mulPow2(bigAdd(x, x), a - 1)

\* time.Duration(f) for a float64 f: the value itself when a Duration can
\* hold it; otherwise the result is implementation-dependent: the smallest
\* int64 where the conversion instruction yields the integer indefinite value
\* (amd64), the largest where it saturates (arm64).
floatToDuration(f) ==
    IF inRange(f) THEN {f} ELSE {MinDuration, MaxDuration}

\* sleepBackoff up to the call of time.Sleep: the delays it can pass on for
\* one jitter draw.
sleepBackoff(c, a, jitter) ==
    LET backoff == bigAdd(mulPow2(big(c.BackoffInitial), a), big(jitter))
    IN  {IF bigLeq(delay, big(c.BackoffMax)) THEN delay
         ELSE big(c.BackoffMax) : delay \in floatToDuration(backoff)}

\* time.Sleep(d): the time slept; zero for a negative or zero d.
timeSleep(d) == IF d.hi < 0 THEN big(0) ELSE d

\* Configs for the backoff runs: BackoffInitial and BackoffMax unset (the
\* defaults), and set to a few milliseconds.
BackoffConfigs ==
    [Timeout : {0}, MaxRetries : {AttemptBound + 1},
     BackoffInitial : {0, 1, 10}, BackoffMax : {0, 5, 100},
     UserAgents : {<<>>}, BaseHeaders : {EmptyHeaders},
     RetryStatus : {{}}, RetryOn : {"nil"}]

\* A client about to call sleepBackoff(attempt).
InitBackoff ==
    /\ callerCfg \in BackoffConfigs
    /\ cfg = New(callerCfg)
    /\ AuthIdle
    /\ ObsIdle
    /\ MoreIdle
    /\ attempt \in 0..AttemptBound
    /\ pc = "backoff"
    /\ req = [Method |-> "GET", URL |-> <<"http", ":", "//h/p">>,
              Params |-> EmptyParams, Headers |-> EmptyHeaders]
    /\ ctxDone = FALSE
    /\ ctxAtCall = FALSE
    /\ u = req.URL
    /\ reqHeader = EmptyHeaders
    /\ lastErr = NilErr
    /\ resp = NoResp
    /\ ret = NoReturn
    /\ hist = <<>>
    /\ sleeps = <<>>
    /\ reqBody = NoBody
    /\ calls = <<>>

\* sleepBackoff(attempt) runs: it draws the jitter, computes the delay and
\* sleeps.
SleepBackoff ==
    /\ UNCHANGED reqBody
    /\ UNCHANGED <<callerCfg, calls, authVars, obsVars, moreVars>>
    /\ pc = "backoff"
    /\ \E jitter \in 0..(JitterRange - 1) :
        \E delay \in sleepBackoff(cfg, attempt, jitter) :
            sleeps' = <<[exp |-> attempt, ctxDone |-> ctxDone,
                         jitter |-> jitter, delay |-> delay,
                         slept |-> timeSleep(delay)]>>
    /\ pc' = "slept"
    /\ UNCHANGED <<cfg, req, ctxDone, ctxAtCall, u, attempt, reqHeader,
                   lastErr, resp, ret, hist>>

NextBackoff == SleepBackoff

SpecBackoff == InitBackoff /\ [][NextBackoff]_vars

\* ------------------------------------------------------ New, NewWithHTTP
\* The Configs callers pass in the constructor runs: every duration and
\* MaxRetries negative, zero and positive, RetryStatus empty or not, RetryOn
\* nil or not.
WideConfigs ==
    [Timeout : {-1, 0, 5}, MaxRetries : {-1, 0, 2},
     BackoffInitial : {-1, 0, 7}, BackoffMax : {-1, 0, 9},
     UserAgents : {<<>>, <<"ua1", "ua2">>}, BaseHeaders : {EmptyHeaders},
     RetryStatus : {{}, {418}}, RetryOn : {"nil", "always"}]

\* A caller is about to call New(c) or NewWithHTTP(hc, c); cfg is the
\* constructor's own copy of c.
InitConfig ==
    /\ callerCfg \in WideConfigs
    /\ cfg = callerCfg
    /\ pc \in {"New", "NewWithHTTP"}
    /\ req = [Method |-> "GET", URL |-> <<"http", ":", "//h/p">>,
              Params |-> EmptyParams, Headers |-> EmptyHeaders]
    /\ ctxDone = FALSE
    /\ ctxAtCall = FALSE
    /\ u = EmptyString
    /\ attempt = 0
    /\ reqHeader = EmptyHeaders
    /\ lastErr = NilErr
    /\ resp = NoResp
    /\ ret = NoReturn
    /\ hist = <<>>
    /\ sleeps = <<>>
    /\ reqBody = NoBody
    /\ calls = <<>>
    /\ AuthIdle
    /\ ObsIdle
    /\ MoreIdle

\* New(cfg), called by the caller or by NewWithHTTP: normalize and build the
\* client.
NewClient ==
    /\ UNCHANGED reqBody
    /\ pc \in {"New", "NewWithHTTP>New"}
    /\ cfg' = New(cfg)
    /\ pc' = IF pc = "New" THEN "client(New)" ELSE "client(NewWithHTTP,nil)"
    /\ UNCHANGED <<req, ctxDone, ctxAtCall, u, attempt, reqHeader, lastErr,
                   resp, ret, hist, sleeps, callerCfg, calls, authVars, obsVars, moreVars>>

\* NewWithHTTP(hc, cfg): normalize, then hand over to New when hc is nil and
\* build the client around hc otherwise.
NewWithHTTPClient ==
    /\ UNCHANGED reqBody
    /\ pc = "NewWithHTTP"
    /\ cfg' = normalizeConfig(cfg)
    /\ \E hc \in {"nil", "hc"} :
        pc' = IF hc = "nil" THEN "NewWithHTTP>New" ELSE "client(NewWithHTTP,hc)"
    /\ UNCHANGED <<req, ctxDone, ctxAtCall, u, attempt, reqHeader, lastErr,
                   resp, ret, hist, sleeps, callerCfg, calls, authVars, obsVars, moreVars>>

NextConfig ==
    \/ NewClient
    \/ NewWithHTTPClient

SpecConfig == InitConfig /\ [][NextConfig]_vars

\* ------------------------------------------------------------ package auth
\* A token string is a record: form "empty" is the empty string, "garbage" a
\* string that is no JWT, "jwt" a JWT with its header's alg, the key it was
\* signed with, and the claims sub, user_id (uid, 0 when absent), exp and nbf
\* (0 when absent) in seconds. The random jti takes no part in validation and
\* is left out. An Authorization header is a scheme prefix followed by a
\* token string.

\* The last second of the clock.
ClockBound == 2

EmptyTok == [form |-> "empty"]

GarbageTok == [form |-> "garbage"]

\* The token strings a client can send.
Tokens ==
    {EmptyTok, GarbageTok} \cup
    [form : {"jwt"}, alg : {"HS256", "HS512", "RS256", "none"},
     key : {"", "k1", "k2"}, sub : {"u1"}, uid : {0, 7},
     exp : 0..(ClockBound + 1), nbf : {0, ClockBound}]

\* The Authorization headers a client can send; scheme "" with the empty
\* token is the missing header.
AuthHeaders == [scheme : {"", "Bearer ", "bearer ", "Basic "}, tok : Tokens]

\* strings.HasPrefix(h, "Bearer ")
HasPrefixBearer(h) == h.scheme = "Bearer "

\* strings.TrimPrefix(h, "Bearer ")
TrimPrefixBearer(h) == IF HasPrefixBearer(h) THEN [h EXCEPT !.scheme = ""] ELSE h

\* h == ""
IsEmptyString(h) == h.scheme = "" /\ h.tok = EmptyTok

\* The key function both middlewares pass to jwt.ParseWithClaims: an error
\* unless the token's method is an HMAC one.
keyFunc(tok, secret) ==
    IF tok.alg \in {"HS256", "HS384", "HS512"}
    THEN [err |-> FALSE, key |-> secret]
    ELSE [err |-> TRUE, key |-> ""]

\* token.Method.Verify with a []byte key: an HMAC signature verifies under
\* the key it was made with; the other methods reject a []byte key.
methodVerify(tok, key) ==
    tok.alg \in {"HS256", "HS384", "HS512"} /\ tok.key = key

\* The claims validator of jwt v5 at time t: exp must lie after t, nbf must
\* not.
claimsValid(tok, t) == t < tok.exp /\ tok.nbf <= t

\* jwt.ParseWithClaims(s, claims, keyFunc) at time t: the string must be a
\* JWT and nothing else, the key function must give a key, the signature must
\* verify and the claims must be valid.
ParseWithClaims(s, secret, t) ==
    IF s.scheme # "" \/ s.tok.form # "jwt" THEN [err |-> TRUE]
    ELSE IF keyFunc(s.tok, secret).err THEN [err |-> TRUE]
    ELSE IF ~methodVerify(s.tok, keyFunc(s.tok, secret).key) THEN [err |-> TRUE]
    ELSE IF ~claimsValid(s.tok, t) THEN [err |-> TRUE]
    ELSE [err |-> FALSE, valid |-> TRUE,
          claims |-> [sub |-> s.tok.sub, uid |-> s.tok.uid,
                      exp |-> s.tok.exp, nbf |-> s.tok.nbf]]

\* IssueAccessJWT(user, cfg) at time t.
IssueAccessJWT(user, c, t) ==
    IF c.SecretKey = "" THEN [err |-> TRUE, tok |-> EmptyTok]
    ELSE [err |-> FALSE,
          tok |-> [form |-> "jwt", alg |-> "HS256", key |-> c.SecretKey,
                   sub |-> user.UserID, uid |-> 0,
                   exp |-> t + c.AccessTTL, nbf |-> 0]]

\* ValidateAccessJWT(tokenString, cfg) at time t.
ValidateAccessJWT(s, c, t) ==
    IF c.SecretKey = "" THEN [err |-> TRUE, userID |-> ""]
    ELSE LET p == ParseWithClaims(s, c.SecretKey, t)
         IN  IF p.err THEN [err |-> TRUE, userID |-> ""]
             ELSE IF ~p.valid THEN [err |-> TRUE, userID |-> ""]
             ELSE [err |-> FALSE, userID |-> p.claims.sub]

Unauthorized == [status |-> 401, next |-> FALSE, ctx |-> [ok |-> FALSE]]

\* The handler RequireAuth(cfg, next) returns, for a request with
\* Authorization header h at time t: the status it writes itself (0: none),
\* whether it calls next, and the value it puts under jwtUserKey.
RequireAuth(h, c, t) ==
    IF HasPrefixBearer(h) THEN Unauthorized
    ELSE LET tokenString == TrimPrefixBearer(h)
         IN  IF IsEmptyString(tokenString) THEN Unauthorized
             ELSE LET v == ValidateAccessJWT(tokenString, c, t)
                  IN  IF v.err THEN Unauthorized
                      ELSE [status |-> 0, next |-> TRUE,
                            ctx |-> [ok |-> TRUE, val |-> v.userID]]

\* JWTAuthMiddleware without the check of the Bearer prefix.
JWTAuthMiddlewareNoSchemeCheck(h, c, t) ==
    IF IsEmptyString(h) THEN Unauthorized
    ELSE LET p == ParseWithClaims(TrimPrefixBearer(h), c.SecretKey, t)
         IN  IF p.err THEN Unauthorized
             ELSE IF ~p.valid THEN Unauthorized
             ELSE [status |-> 0, next |-> TRUE,
                   ctx |-> [ok |-> TRUE, val |-> p.claims]]

\* The handler JWTAuthMiddleware(config)(next), likewise.
JWTAuthMiddleware(h, c, t) ==
    IF IsEmptyString(h) THEN Unauthorized
    ELSE IF ~HasPrefixBearer(h) THEN Unauthorized
    ELSE LET p == ParseWithClaims(TrimPrefixBearer(h), c.SecretKey, t)
         IN  IF p.err THEN Unauthorized
             ELSE IF ~p.valid THEN Unauthorized
             ELSE [status |-> 0, next |-> TRUE,
                   ctx |-> [ok |-> TRUE, val |-> p.claims]]

\* GetUserIDFromContext and GetJWTUserFromContext: the value under
\* jwtUserKey, if there is one.
GetUserFromContext(ctx) == ctx

\* No client, no Do call.
HttpIdle ==
    /\ callerCfg = [Timeout |-> 0, MaxRetries |-> 0, BackoffInitial |-> 0,
                    BackoffMax |-> 0, UserAgents |-> <<>>,
                    BaseHeaders |-> EmptyHeaders,
                    RetryStatus |-> {}, RetryOn |-> "nil"]
    /\ cfg = callerCfg
    /\ req = [Method |-> "GET", URL |-> EmptyString,
              Params |-> EmptyParams, Headers |-> EmptyHeaders]
    /\ ctxDone = FALSE
    /\ ctxAtCall = FALSE
    /\ pc = "idle"
    /\ u = EmptyString
    /\ attempt = 0
    /\ reqHeader = EmptyHeaders
    /\ lastErr = NilErr
    /\ resp = NoResp
    /\ ret = NoReturn
    /\ hist = <<>>
    /\ sleeps = <<>>
    /\ reqBody = NoBody
    /\ calls = <<>>

\* A server behind RequireAuth, no request yet.
InitRequireAuth ==
    /\ jwtCfg \in [Issuer : {"iss"}, Audience : {"aud"},
                    AccessTTL : 0..ClockBound, SecretKey : {"", "k1"}]
    /\ now = 0
    /\ authHeader = [scheme |-> "", tok |-> EmptyTok]
    /\ authPc = "idle"
    /\ authStatus = 0
    /\ nextCalls = 0
    /\ nextCtx = [ok |-> FALSE]
    /\ HttpIdle
    /\ ObsIdle
    /\ MoreIdle

\* A server behind JWTAuthMiddleware, no request yet.
InitJWTAuth ==
    /\ jwtCfg \in [SecretKey : {"", "k1"}, TokenDuration : {1},
                    Issuer : {"clientpulse-org"}]
    /\ now = 0
    /\ authHeader = [scheme |-> "", tok |-> EmptyTok]
    /\ authPc = "idle"
    /\ authStatus = 0
    /\ nextCalls = 0
    /\ nextCtx = [ok |-> FALSE]
    /\ HttpIdle
    /\ ObsIdle
    /\ MoreIdle

\* A second passes before the request arrives.
Tick ==
    /\ authPc = "idle"
    /\ now < ClockBound
    /\ now' = now + 1
    /\ UNCHANGED <<jwtCfg, authHeader, authPc, authStatus, nextCalls, nextCtx,
                   httpVars, obsVars, moreVars>>

\* A request arrives with some Authorization header.
Request ==
    /\ authPc = "idle"
    /\ authHeader' \in AuthHeaders
    /\ authPc' = "handler"
    /\ UNCHANGED <<jwtCfg, now, authStatus, nextCalls, nextCtx, httpVars, obsVars, moreVars>>

\* The handler built by RequireAuth serves the request.
RequireAuthServe ==
    /\ authPc = "handler"
    /\ LET r == RequireAuth(authHeader, jwtCfg, now)
       IN  /\ authStatus' = r.status
           /\ nextCtx' = r.ctx
           /\ authPc' = IF r.next THEN "next" ELSE "done"
    /\ UNCHANGED <<jwtCfg, now, authHeader, nextCalls, httpVars, obsVars, moreVars>>

\* The handler built by JWTAuthMiddleware serves the request.
JWTAuthServe ==
    /\ authPc = "handler"
    /\ LET r == JWTAuthMiddleware(authHeader, jwtCfg, now)
       IN  /\ authStatus' = r.status
           /\ nextCtx' = r.ctx
           /\ authPc' = IF r.next THEN "next" ELSE "done"
    /\ UNCHANGED <<jwtCfg, now, authHeader, nextCalls, httpVars, obsVars, moreVars>>

\* next.ServeHTTP runs and answers 200.
NextServe ==
    /\ authPc = "next"
    /\ nextCalls' = nextCalls + 1
    /\ authStatus' = 200
    /\ authPc' = "done"
    /\ UNCHANGED <<jwtCfg, now, authHeader, nextCtx, httpVars, obsVars, moreVars>>

NextRequireAuth ==
    \/ Tick
    \/ Request
    \/ RequireAuthServe
    \/ NextServe

SpecRequireAuth == InitRequireAuth /\ [][NextRequireAuth]_vars

NextJWTAuth ==
    \/ Tick
    \/ Request
    \/ JWTAuthServe
    \/ NextServe

SpecJWTAuth == InitJWTAuth /\ [][NextJWTAuth]_vars

\* ------------------------------------------------------------- package obs
\* An *Observability is named by the number of the goroutine whose Init call
\* allocated it; 0 is the nil pointer. A section of code that runs with
\* globalMu held is one step.

\* The number of goroutines that call Init.
InitCallers == 3

Goroutines == 1..InitCallers

\* Config.Validate
Validate(c) ==
    IF c.ServiceName = "" THEN "ErrInvalidServiceName"
    ELSE IF c.TracingSampleRatio < 0 \/ c.TracingSampleRatio > 1
         THEN "ErrInvalidSampleRatio"
    ELSE IF c.MetricsPort <= 0 \/ c.MetricsPort > 65535
         THEN "ErrInvalidMetricsPort"
    ELSE "nil"

\* The Configs passed to Init.
ObsConfigs == [ServiceName : {"", "svc"}, TracingSampleRatio : {1}, MetricsPort : {9090}]

\* The last locked section of Init without the second look at globalObs.
publishNoRecheck(global, obs) == [global |-> obs, obs |-> obs]

\* The last locked section of Init: install obs unless globalObs is set by
\* now, and take over globalObs otherwise.
publish(global, obs) ==
    IF global = 0 THEN [global |-> obs, obs |-> obs]
    ELSE [global |-> global, obs |-> global]

\* Global()
Global == globalObs

\* Goroutines about to call Init, no global instance.
InitObs ==
    /\ globalObs = 0
    /\ obsCfg \in [Goroutines -> ObsConfigs]
    /\ initPc = [g \in Goroutines |-> "call"]
    /\ initObs = [g \in Goroutines |-> 0]
    /\ initRet = [g \in Goroutines |-> [obs |-> 0, err |-> "none"]]
    /\ objects = {}
    /\ HttpIdle
    /\ AuthIdle
    /\ MoreIdle

\* Init, up to config.Validate().
InitValidate(g) ==
    /\ initPc[g] = "call"
    /\ IF Validate(obsCfg[g]) # "nil"
       THEN /\ initRet' = [initRet EXCEPT ![g] = [obs |-> 0, err |-> "invalid configuration"]]
            /\ initPc' = [initPc EXCEPT ![g] = "done"]
       ELSE /\ initPc' = [initPc EXCEPT ![g] = "check"]
            /\ UNCHANGED initRet
    /\ UNCHANGED <<globalObs, obsCfg, initObs, objects, httpVars, authVars, moreVars>>

\* Init, first locked section: return the global instance if there is one.
InitCheck(g) ==
    /\ initPc[g] = "check"
    /\ IF globalObs # 0
       THEN /\ initRet' = [initRet EXCEPT ![g] = [obs |-> globalObs, err |-> "nil"]]
            /\ initPc' = [initPc EXCEPT ![g] = "done"]
       ELSE /\ initPc' = [initPc EXCEPT ![g] = "build"]
            /\ UNCHANGED initRet
    /\ UNCHANGED <<globalObs, obsCfg, initObs, objects, httpVars, authVars, moreVars>>

\* Init, unlocked: allocate obs and start its providers; the tracing or the
\* metrics provider may fail.
InitBuild(g) ==
    /\ initPc[g] = "build"
    /\ \E initErr \in {"nil", "ErrTracingInitFailed", "ErrMetricsInitFailed"} :
        IF initErr # "nil"
        THEN /\ initRet' = [initRet EXCEPT ![g] = [obs |-> 0, err |-> initErr]]
             /\ initPc' = [initPc EXCEPT ![g] = "done"]
             /\ initObs' = [initObs EXCEPT ![g] = g]
             /\ UNCHANGED objects
        ELSE /\ initObs' = [initObs EXCEPT ![g] = g]
             /\ objects' = objects \cup {g}
             /\ initPc' = [initPc EXCEPT ![g] = "publish"]
             /\ UNCHANGED initRet
    /\ UNCHANGED <<globalObs, obsCfg, httpVars, authVars, moreVars>>

\* Init, second locked section and return.
InitPublish(g) ==
    /\ initPc[g] = "publish"
    /\ LET p == publish(globalObs, initObs[g])
       IN  /\ globalObs' = p.global
           /\ initObs' = [initObs EXCEPT ![g] = p.obs]
           /\ initRet' = [initRet EXCEPT ![g] = [obs |-> p.obs, err |-> "nil"]]
    /\ initPc' = [initPc EXCEPT ![g] = "done"]
    /\ UNCHANGED <<obsCfg, objects, httpVars, authVars, moreVars>>

NextObs ==
    \/ \E g \in Goroutines : InitValidate(g)
    \/ \E g \in Goroutines : InitCheck(g)
    \/ \E g \in Goroutines : InitBuild(g)
    \/ \E g \in Goroutines : InitPublish(g)

SpecObs == InitObs /\ [][NextObs]_vars

\* Do calls over header inputs: BaseHeaders empty, with a User-Agent, and
\* with an Accept and one name under two letter cases; the pool empty or not;
\* the caller's headers as in Requests, or an Accept-Language alone.
InitHeaders ==
    /\ callerCfg \in
        [Timeout : {0}, MaxRetries : {1}, BackoffInitial : {0}, BackoffMax : {0},
         UserAgents : {<<>>, <<"ua1", "ua2">>},
         BaseHeaders : {EmptyHeaders,
                        [k \in {"User-Agent", "X-Base"} |->
                            IF k = "X-Base" THEN "1" ELSE "base-ua"],
                        [k \in {"accept", "x-base", "X-Base"} |->
                            CASE k = "accept" -> "base-accept"
                              [] k = "x-base" -> "lo"
                              [] OTHER -> "hi"]},
         RetryStatus : {{}}, RetryOn : {"nil"}]
    /\ cfg = New(callerCfg)
    /\ req \in [Method : {""}, URL : {<<"http", ":", "//h/p">>},
                 Params : {EmptyParams},
                 Headers : {EmptyHeaders,
                            [k \in {"user-agent", "X-Custom"} |->
                                IF k = "X-Custom" THEN "v" ELSE "mine"],
                            [k \in {"accept-language"} |-> "de"],
                            [k \in {"x-base"} |-> "2"]}]
    /\ ctxDone = FALSE
    /\ ctxAtCall = FALSE
    /\ pc = "call"
    /\ u = EmptyString
    /\ attempt = 0
    /\ reqHeader = EmptyHeaders
    /\ lastErr = NilErr
    /\ resp = NoResp
    /\ ret = NoReturn
    /\ hist = <<>>
    /\ sleeps = <<>>
    /\ reqBody = NoBody
    /\ calls = <<>>
    /\ AuthIdle
    /\ ObsIdle
    /\ MoreIdle

SpecHeaders == InitHeaders /\ [][Next]_vars

\* ------------------------------------------------------- concurrent calls
\* Several goroutines call Do on one client, each with a live context and a
\* valid request without a body. A call's local state is its loop variable
\* attempt, lastErr, the number of c.http.Do calls made and of sleeps begun,
\* what it returned, and script, the outcomes the server has in store for its
\* attempts: a status, or 0 for a transport error.

Calls == {"c1", "c2"}

\* The loop variable of another call, whichever is furthest.
loopAttemptShared(c) ==
    CHOOSE a \in {calls[d].attempt : d \in DOMAIN calls} :
        \A d \in DOMAIN calls : calls[d].attempt <= a

\* The loop variable attempt of call c.
loopAttempt(c) == calls[c].attempt

\* One step of the loop of Do for local state l, with a the value read from
\* the loop variable: an attempt with what follows it up to the sleep or the
\* return, or the end of the sleep with attempt++.
doStep(l, a) ==
    IF l.pc = "sleep" THEN [l EXCEPT !.attempt = a + 1, !.pc = "loop"]
    ELSE LET n == l.made + 1
             out == l.script[n]
             err == IF out = 0 THEN TransportErr(n) ELSE NilErr
             res == makeResponse([StatusCode |-> out, Body |-> ServerBody(n, out),
                                  Header |-> ServerHeader(n, out)],
                                 ServerBody(n, out), <<"http", ":", "//h/p">>)
         IN  IF shouldRetry(out, err) /\ a < cfg.MaxRetries
             THEN [l EXCEPT !.made = n, !.slept = @ + 1, !.pc = "sleep",
                            !.lastErr = IF out = 0 THEN err ELSE StatusErr(out)]
             ELSE [l EXCEPT !.made = n, !.pc = "done", !.ret =
                    IF out = 0
                    THEN [res |-> ZeroResponse,
                          err |-> ErrorfW("httpx: request failed", err)]
                    ELSE IF shouldRetry(out, NilErr) /\ a > 0 /\ a >= cfg.MaxRetries
                    THEN [res |-> ZeroResponse,
                          err |-> ErrorfWV(ErrMaxRetries, StatusErr(out))]
                    ELSE [res |-> res, err |-> NilErr]]

\* A call at the head of its loop.
callStart(script) ==
    [pc |-> "loop", attempt |-> 0, lastErr |-> NilErr, made |-> 0, slept |-> 0,
     ret |-> NoReturn, script |-> script]

\* One client, the calls of Calls at the head of their loops.
InitCalls ==
    /\ callerCfg \in [Timeout : {0}, MaxRetries : {1, 2}, BackoffInitial : {0},
                      BackoffMax : {0}, UserAgents : {<<>>},
                      BaseHeaders : {EmptyHeaders},
                      RetryStatus : {{}}, RetryOn : {"nil"}]
    /\ cfg = New(callerCfg)
    /\ calls \in [Calls -> {callStart(s) : s \in [1..3 -> {0, 200, 500}]}]
    /\ req = [Method |-> "GET", URL |-> <<"http", ":", "//h/p">>,
              Params |-> EmptyParams, Headers |-> EmptyHeaders]
    /\ ctxDone = FALSE
    /\ ctxAtCall = FALSE
    /\ pc = "calls"
    /\ u = req.URL
    /\ attempt = 0
    /\ reqHeader = EmptyHeaders
    /\ lastErr = NilErr
    /\ resp = NoResp
    /\ ret = NoReturn
    /\ hist = <<>>
    /\ sleeps = <<>>
    /\ reqBody = NoBody
    /\ AuthIdle
    /\ ObsIdle
    /\ MoreIdle

\* Call c makes its next attempt and goes to sleep or returns.
CallAttempt(c) ==
    /\ calls[c].pc = "loop"
    /\ calls' = [calls EXCEPT ![c] = doStep(@, loopAttempt(c))]
    /\ UNCHANGED <<cfg, req, ctxDone, ctxAtCall, pc, u, attempt, reqHeader,
                   lastErr, resp, ret, hist, sleeps, callerCfg, reqBody,
                   authVars, obsVars, moreVars>>

\* The sleep of call c ends.
CallSleepDone(c) ==
    /\ calls[c].pc = "sleep"
    /\ calls' = [calls EXCEPT ![c] = doStep(@, loopAttempt(c))]
    /\ UNCHANGED <<cfg, req, ctxDone, ctxAtCall, pc, u, attempt, reqHeader,
                   lastErr, resp, ret, hist, sleeps, callerCfg, reqBody,
                   authVars, obsVars, moreVars>>

NextCalls ==
    \/ \E c \in Calls : CallAttempt(c)
    \/ \E c \in Calls : CallSleepDone(c)

SpecCalls == InitCalls /\ [][NextCalls]_vars

\* Do calls over the URL-building inputs.
SpecURL == InitURL /\ [][Next]_vars

\* ------------------------------------------------------------ observations

\* Do has returned.
Done == pc = "done"

\* The request passes the URL checks and NewRequestWithContext.
RequestOK ==
    /\ req.URL # EmptyString
    /\ req.URL[1] # ":"
    /\ req.Method \in {"", "GET", "POST"}

\* Attempt i received a response, read its body, and the policy retries its status.
RetryableStatusAt(i) ==
    /\ hist[i].kind = "ok"
    /\ shouldRetry(hist[i].status, NilErr)

\* Attempt i received a response, read its body, and the policy accepts its status.
FinalStatusAt(i) ==
    /\ hist[i].kind = "ok"
    /\ ~shouldRetry(hist[i].status, NilErr)

\* Attempt i ended in a failure the policy retries.
RetryableFailureAt(i) ==
    \/ RetryableStatusAt(i)
    \/ hist[i].kind = "transportErr" /\ shouldRetry(0, TransportErr(i))
    \/ hist[i].kind = "readErr" /\ shouldRetry(hist[i].status, BodyReadErr(i))

\* The server answered every attempt with a retryable status, the context is
\* live, and Do has returned.
AlwaysRetryableRun ==
    /\ Done
    /\ RequestOK
    /\ ~ctxDone
    /\ \A i \in 1..Len(hist) : RetryableStatusAt(i)

\* The URL a valid request of this model resolves to: the parameter a=2
\* merged before the existing b=1.
MergedURL ==
    IF req.Params = EmptyParams THEN req.URL
    ELSE <<"http", ":", "//h/p", "?", "a", "=", "2", "&", "b", "=", "1">>

\* ------------------------------------------------------------------ claims

\* C1 as stated: with MaxRetries = N, for every N >= 0, a server that answers
\* every attempt with a retryable status and a live context, Do makes N+1
\* attempts and returns an error matching ErrMaxRetries.
C1_AllN ==
    AlwaysRetryableRun =>
        /\ Len(hist) = cfg.MaxRetries + 1
        /\ ErrorsIs(ret.err, ErrMaxRetries)

\* C1 amended: in such a run Do makes N+1 attempts; for N >= 1 it returns the
\* zero Response and an error matching ErrMaxRetries, for N = 0 it returns the
\* single response with a nil error.
C1_MaxRetriesExceeded ==
    AlwaysRetryableRun =>
        /\ Len(hist) = cfg.MaxRetries + 1
        /\ Len(sleeps) = cfg.MaxRetries
        /\ IF cfg.MaxRetries >= 1
           THEN /\ ErrorsIs(ret.err, ErrMaxRetries)
                /\ ret.err.detail = hist[Len(hist)].status
                /\ ret.res = ZeroResponse
           ELSE /\ ret.err = NilErr
                /\ ret.res.Status = hist[1].status

C1_Witness ==
    /\ AlwaysRetryableRun
    /\ cfg.MaxRetries = 2
    /\ Len(hist) = 3
    /\ ErrorsIs(ret.err, ErrMaxRetries)

\* C2: with MaxRetries = 0 Do makes exactly one attempt, never sleeps, and
\* returns the response it received, a retryable 500 included, with a nil error.
C2_NoRetries ==
    cfg.MaxRetries = 0 =>
        /\ Len(hist) <= 1
        /\ sleeps = <<>>
        /\ (Done /\ RequestOK => Len(hist) = 1)
        /\ (Done /\ Len(hist) = 1 /\ hist[1].kind = "ok" =>
                /\ ret.err = NilErr
                /\ ret.res.Status = hist[1].status
                /\ ret.res.Body = ServerBody(1, hist[1].status))

C2_Witness ==
    /\ cfg.MaxRetries = 0
    /\ Done
    /\ Len(hist) = 1
    /\ RetryableStatusAt(1)
    /\ hist[1].status = 500
    /\ ret.err = NilErr
    /\ ret.res.Status = 500

\* C3: when k retried failures are followed by a response with a
\* non-retryable status, Do returns that response with a nil error after
\* exactly k+1 attempts and k sleeps; nothing of the k failures is returned.
C3_RetriesInternal ==
    \A n \in 1..Len(hist) :
        FinalStatusAt(n) =>
            /\ n = Len(hist)
            /\ n <= cfg.MaxRetries + 1
            /\ \A i \in 1..(n - 1) : RetryableFailureAt(i)
            /\ Len(sleeps) = n - 1
            /\ Done
            /\ ret.err = NilErr
            /\ ret.res.Status = hist[n].status
            /\ ret.res.Body = ServerBody(n, hist[n].status)

C3_Witness ==
    /\ Len(hist) = 3
    /\ hist[1].kind = "transportErr"
    /\ RetryableStatusAt(2)
    /\ FinalStatusAt(3)
    /\ hist[3].status = 200
    /\ Done
    /\ ret.err = NilErr
    /\ ret.res.Status = 200

\* C4 as stated: when each of the MaxRetries+1 attempts fails with a transport
\* error the policy retries and the context stays live, Do returns an error
\* matching ErrMaxRetries that carries the last transport error.
C4_TransportExhausted ==
    ( /\ Done
      /\ RequestOK
      /\ ~ctxDone
      /\ Len(hist) = cfg.MaxRetries + 1
      /\ \A i \in 1..Len(hist) :
            hist[i].kind = "transportErr" /\ shouldRetry(0, TransportErr(i)) )
    => /\ ErrorsIs(ret.err, ErrMaxRetries)
       /\ ret.err.detail = Len(hist)

\* C5: a Do call with a sendable request and a context that is already done
\* returns the context's error after one failed attempt and no sleep; no Do
\* call with such a context returns an error matching ErrMaxRetries.
C5_PreCancelled ==
    Done /\ ctxAtCall =>
        /\ ~ErrorsIs(ret.err, ErrMaxRetries)
        /\ RequestOK =>
            /\ ret.err = CtxErr
            /\ ret.res = ZeroResponse
            /\ Len(hist) = 1
            /\ hist[1].kind = "transportErr"
            /\ sleeps = <<>>

C5_Witness ==
    /\ Done
    /\ ctxAtCall
    /\ RequestOK
    /\ cfg.RetryOn = "always"
    /\ cfg.MaxRetries = 2
    /\ ret.err = CtxErr

\* C6 as stated: an attempt that fails, with a transport error or a body-read
\* error, while the context is done is the last attempt: Do returns the
\* context's error at once, with no sleep after the failure.
C6_FailureWhileCancelled ==
    \A i \in 1..Len(hist) :
        hist[i].kind \in {"transportErr", "readErr"} /\ hist[i].endCtx =>
            /\ i = Len(hist)
            /\ Len(sleeps) = i - 1
            /\ Done
            /\ ErrorsIs(ret.err, CtxErr)

\* C7 as stated: no backoff sleep begins while the context is done, and no
\* attempt that begins while the context is done reaches the server.
C7_NoSleepNoAttemptWhileCancelled ==
    /\ \A j \in 1..Len(sleeps) : ~sleeps[j].ctxDone
    /\ \A i \in 1..Len(hist) :
        hist[i].startCtx => hist[i].kind \in {"pending", "transportErr"}

\* C8: an empty URL gives ErrEmptyURL, an unparsable one an error matching
\* ErrInvalidURL; either way Do returns from its first step with no attempt
\* made and no sleep, whatever the Config and the context.
C8_BadURL ==
    /\ req.URL = EmptyString =>
        /\ hist = <<>> /\ sleeps = <<>>
        /\ pc \in {"call", "done"}
        /\ Done => ret.err = ErrEmptyURL /\ ret.res = ZeroResponse
    /\ req.URL = <<":", "//invalid">> =>
        /\ hist = <<>> /\ sleeps = <<>>
        /\ pc \in {"call", "done"}
        /\ Done => /\ ErrorsIs(ret.err, ErrInvalidURL)
                   /\ ~ErrorsIs(ret.err, ErrEmptyURL)
                   /\ ret.res = ZeroResponse

C8_Witness ==
    /\ Done
    /\ req.URL = <<":", "//invalid">>
    /\ ctxDone
    /\ cfg.MaxRetries = 2
    /\ cfg.RetryOn = "always"
    /\ ErrorsIs(ret.err, ErrInvalidURL)
    /\ hist = <<>>

\* C9: an attempt whose response body is read and whose status the policy
\* does not retry ends the call at once: nil error, and a Response with that
\* attempt's status, body and headers and the merged URL, after no further
\* sleep, at every attempt index and for every status.
C9_NonRetryableReturned ==
    \A n \in 1..Len(hist) :
        FinalStatusAt(n) =>
            /\ n = Len(hist)
            /\ Done
            /\ Len(sleeps) = n - 1
            /\ ret.err = NilErr
            /\ ret.res = [Status |-> hist[n].status,
                          Body |-> ServerBody(n, hist[n].status),
                          Headers |-> ServerHeader(n, hist[n].status),
                          URL |-> MergedURL]

C9_Witness ==
    /\ Len(hist) = 2
    /\ FinalStatusAt(2)
    /\ hist[2].status = 500
    /\ req.Params # EmptyParams
    /\ Done
    /\ ret.err = NilErr
    /\ ret.res.Status = 500
    /\ ret.res.URL = MergedURL

\* C10 as stated: Do returns either a nil error with a populated Response or
\* a non-nil error with the zero Response.
C10_ResponseOrError ==
    Done =>
        \/ ret.err = NilErr /\ ret.res # ZeroResponse
        \/ ret.err # NilErr /\ ret.res = ZeroResponse

\* Attempt i has ended: c.http.Do failed, or the body was read or failed to read.
EndedAt(i) == hist[i].kind \in {"transportErr", "readErr", "ok"}

\* The status and the error Do hands to shouldRetry after attempt i.
DecisionStatus(i) == IF hist[i].kind = "transportErr" THEN 0 ELSE hist[i].status

DecisionErr(i) ==
    CASE hist[i].kind = "transportErr" -> TransportErr(i)
      [] hist[i].kind = "readErr" -> BodyReadErr(i)
      [] OTHER -> NilErr

\* Do went on to a backoff sleep and another iteration after attempt i.
RetriedAfter(i) == i < Len(hist) \/ pc \in {"sleep", "loop"}

\* Attempt i may be retried at all: an attempt is left, and the attempt did
\* not end in a transport error under a done context.
MayRetry(i) ==
    /\ i <= cfg.MaxRetries
    /\ ~(hist[i].kind = "transportErr" /\ hist[i].endCtx)

\* C11: with RetryOn set, Do retries after an attempt exactly when
\* RetryOn(status, err) is true (and an attempt is left); the RetryStatus list
\* and the error rule play no part: a predicate matching 418 only retries a
\* 418, returns a 500 that is in RetryStatus, and returns a transport error.
C11_RetryOnAlone ==
    cfg.RetryOn # "nil" =>
        \A i \in 1..Len(hist) :
            EndedAt(i) =>
                /\ RetriedAfter(i) <=>
                     (MayRetry(i) /\ RetryOn(cfg.RetryOn, DecisionStatus(i), DecisionErr(i)))
                /\ cfg.RetryOn = "only418" =>
                     (RetriedAfter(i) <=>
                        (MayRetry(i) /\ hist[i].kind # "transportErr" /\ hist[i].status = 418))

C11_Witness ==
    /\ cfg.RetryOn = "only418"
    /\ cfg.RetryStatus = {500}
    /\ cfg.MaxRetries = 2
    /\ Len(hist) = 2
    /\ hist[1].kind = "ok" /\ hist[1].status = 418
    /\ hist[2].kind = "ok" /\ hist[2].status = 500
    /\ Done
    /\ ret.err = NilErr
    /\ ret.res.Status = 500

\* C12: with no RetryOn, shouldRetry is true for every non-nil error whatever
\* the status, and for a nil error exactly for the statuses in RetryStatus;
\* Do retries accordingly.
C12_DefaultPolicy ==
    cfg.RetryOn = "nil" =>
        /\ \A s \in Statuses \cup {0, 429} :
            /\ \A e \in {TransportErr(1), BodyReadErr(1), CtxErr} : shouldRetry(s, e)
            /\ shouldRetry(s, NilErr) <=> s \in cfg.RetryStatus
        /\ \A i \in 1..Len(hist) :
            EndedAt(i) =>
                (RetriedAfter(i) <=>
                    /\ MayRetry(i)
                    /\ hist[i].kind # "ok" \/ hist[i].status \in cfg.RetryStatus)

C12_Witness ==
    /\ cfg.RetryOn = "nil"
    /\ cfg.RetryStatus = {418}
    /\ Len(hist) = 3
    /\ hist[1].kind = "transportErr"
    /\ hist[2].kind = "readErr" /\ hist[2].status = 200
    /\ hist[3].kind = "ok" /\ hist[3].status = 500
    /\ Done
    /\ ret.err = NilErr

\* The values the caller gave, under any letter case, for the header key k.
CallerValues(k) ==
    {req.Headers[k2] : k2 \in {x \in DOMAIN req.Headers : lower(x) = lower(k)}}

\* C13: on every attempt, for every key of Request.Headers the header sent
\* under that key carries the caller's value for it (one of the caller's
\* values when Request.Headers holds the name under several letter cases),
\* never the BaseHeaders value or an auto-filled one; a caller-supplied
\* User-Agent is never replaced by a picked one.
C13_CallerHeadersWin ==
    Len(hist) >= 1 =>
        /\ \A k \in DOMAIN req.Headers :
            /\ canonicalKey(k) \in DOMAIN reqHeader
            /\ reqHeader[canonicalKey(k)] \in CallerValues(k)
        /\ headerLookup(req.Headers, "User-Agent") =>
            reqHeader["User-Agent"] \notin
                pickUA(cfg.UserAgents) \cup {cfg.BaseHeaders["User-Agent"]}

C13_Witness ==
    /\ Len(hist) = 2
    /\ pc = "httpDo"
    /\ cfg.UserAgents # <<>>
    /\ "x-base" \in DOMAIN req.Headers
    /\ reqHeader["X-Base"] = "2"
    /\ reqHeader["Accept"] = "text/html"
    /\ reqHeader["User-Agent"] = "mine-upper"

\* The query part of a URL: the tokens after the question mark.
QueryOf(url) ==
    LET q == IndexOf(url, "?")
    IN  IF q = 0 THEN <<>> ELSE SubSeq(url, q + 1, Len(url))

\* The keys a raw URL's query names: each token right after "?" or "&".
ExistingKeys(raw) ==
    {raw[i] : i \in {j \in 2..Len(raw) : raw[j - 1] \in {"?", "&"}}}

\* The pairs of an encoded query k=v&k=v..., in order.
OutPairs(url) ==
    LET q == QueryOf(url)
    IN  [j \in 1..((Len(q) + 1) \div 4) |-> <<q[4 * j - 3], q[4 * j - 1]>>]

KeyPos(k) == CHOOSE i \in 1..Len(KeyOrder) : KeyOrder[i] = k

\* C14 as stated: the built URL's query holds every Params key once with its
\* (escaped) value, keeps every key of the raw URL's query that Params does
\* not name, and lists the keys in ascending order; with empty Params the URL
\* comes back as parsed; the built URL does not change between attempts and
\* is the one reported in Response.URL.
C14_MergedQuery ==
    pc # "call" =>
        /\ DOMAIN req.Params = {} => u = req.URL
        /\ DOMAIN req.Params # {} =>
            LET out == OutPairs(u)
            IN  /\ Len(QueryOf(u)) = 4 * Len(out) - 1
                /\ \A k \in DOMAIN req.Params :
                    /\ Cardinality({j \in DOMAIN out : out[j][1] = k}) = 1
                    /\ \E j \in DOMAIN out :
                        out[j] = <<k, IF req.Params[k] = "x y" THEN "x+y"
                                      ELSE req.Params[k]>>
                /\ \A k \in ExistingKeys(req.URL) \ DOMAIN req.Params :
                    \E j \in DOMAIN out : out[j][1] = k
                /\ \A i, j \in DOMAIN out :
                    i < j => KeyPos(out[i][1]) <= KeyPos(out[j][1])
        /\ Done /\ ret.res # ZeroResponse => ret.res.URL = u

\* C14 without the malformed pair: the same statement for raw URLs whose
\* query pairs all unescape.
C14_MergedQueryWellFormed ==
    (\A i \in 1..Len(req.URL) : req.URL[i] # "%zz") => C14_MergedQuery

bigMin(x, y) == IF bigLeq(x, y) THEN x ELSE y

\* C15 as stated: the delay slept by sleepBackoff(a) is
\* min(BackoffInitial * 2^a + jitter, BackoffMax) with a jitter of 0 .. 249
\* whole milliseconds, so it is at most BackoffMax and at least
\* min(BackoffInitial * 2^a, BackoffMax), for every attempt index, also where
\* BackoffInitial * 2^a leaves the 64-bit duration range.
C15_BackoffDelay ==
    pc = "slept" =>
        LET s == sleeps[1]
            grown == mulPow2(big(cfg.BackoffInitial), s.exp)
            top == big(cfg.BackoffMax)
        IN  /\ s.jitter \in 0..249
            /\ s.delay = bigMin(bigAdd(grown, big(s.jitter)), top)
            /\ s.slept = s.delay
            /\ bigLeq(s.slept, top)
            /\ bigLeq(bigMin(grown, top), s.slept)

\* C15 inside the duration range: the same statement for the attempt indices
\* where BackoffInitial * 2^a + jitter is a value a time.Duration can hold.
C15_BackoffDelayInRange ==
    (pc = "slept" /\ inRange(bigAdd(mulPow2(big(cfg.BackoffInitial), sleeps[1].exp),
                                    big(sleeps[1].jitter))))
        => C15_BackoffDelay

\* A client has been built.
ClientBuilt == pc \in {"client(New)", "client(NewWithHTTP,nil)", "client(NewWithHTTP,hc)"}

\* C16: the client's Config has Timeout 10s where the caller's was <= 0,
\* MaxRetries 0 where it was < 0, BackoffInitial 1s and BackoffMax 30s where
\* they were <= 0, RetryStatus {429, 500..599} exactly when the caller gave
\* an empty RetryStatus and no RetryOn, and the caller's value in every other
\* field and case.
C16_NormalizedFields ==
    ClientBuilt =>
        /\ cfg.Timeout = (IF callerCfg.Timeout <= 0 THEN 10000 ELSE callerCfg.Timeout)
        /\ cfg.MaxRetries = (IF callerCfg.MaxRetries < 0 THEN 0 ELSE callerCfg.MaxRetries)
        /\ cfg.BackoffInitial =
            (IF callerCfg.BackoffInitial <= 0 THEN 1000 ELSE callerCfg.BackoffInitial)
        /\ cfg.BackoffMax =
            (IF callerCfg.BackoffMax <= 0 THEN 30000 ELSE callerCfg.BackoffMax)
        /\ (callerCfg.RetryStatus = {} /\ callerCfg.RetryOn = "nil")
            => cfg.RetryStatus = {429} \cup {code \in 0..999 : code >= 500 /\ code <= 599}
        /\ ~(callerCfg.RetryStatus = {} /\ callerCfg.RetryOn = "nil")
            => cfg.RetryStatus = callerCfg.RetryStatus
        /\ cfg.UserAgents = callerCfg.UserAgents
        /\ cfg.BaseHeaders = callerCfg.BaseHeaders
        /\ cfg.RetryOn = callerCfg.RetryOn

\* A client built from a Config with an empty RetryStatus, a RetryOn, a
\* negative Timeout and a BackoffMax that is set.
C16_Witness ==
    /\ ClientBuilt
    /\ callerCfg.RetryStatus = {}
    /\ callerCfg.RetryOn = "always"
    /\ callerCfg.Timeout = -1
    /\ callerCfg.BackoffMax = 9
    /\ cfg.RetryStatus = {}
    /\ cfg.Timeout = 10000

\* C17: normalizing a normalized Config changes nothing, and a client built by
\* NewWithHTTP(nil, c), which normalizes twice, has the Config New(c) gives.
C17_Idempotent ==
    /\ pc = "NewWithHTTP>New" => normalizeConfig(cfg) = cfg
    /\ ClientBuilt => normalizeConfig(cfg) = cfg
    /\ pc = "client(NewWithHTTP,nil)" => cfg = New(callerCfg)

\* NewWithHTTP(nil, c) has built a client from a Config with a Timeout that
\* is set and the other durations unset.
C17_Witness ==
    /\ pc = "client(NewWithHTTP,nil)"
    /\ callerCfg.Timeout = 5
    /\ callerCfg.BackoffInitial = 0
    /\ callerCfg.RetryStatus = {}
    /\ callerCfg.RetryOn = "nil"
    /\ cfg.Timeout = 5

\* The header is "Bearer " followed by a JWT that is HMAC-signed with the
\* configured key and whose exp and nbf claims hold now.
BearerValid ==
    /\ authHeader.scheme = "Bearer "
    /\ authHeader.tok.form = "jwt"
    /\ authHeader.tok.alg \in {"HS256", "HS512"}
    /\ authHeader.tok.key = jwtCfg.SecretKey
    /\ now < authHeader.tok.exp
    /\ authHeader.tok.nbf <= now

\* The header is "Bearer " followed by an unexpired token that IssueAccessJWT
\* made under jwtCfg at some earlier time.
BearerIssued ==
    /\ authHeader.scheme = "Bearer "
    /\ \E t0 \in 0..now :
        LET i == IssueAccessJWT([UserID |-> "u1"], jwtCfg, t0)
        IN  ~i.err /\ authHeader.tok = i.tok /\ now < i.tok.exp

\* C18 as stated: behind RequireAuth a request with "Bearer " and an unexpired
\* token issued under the same JWTConfig reaches next exactly once, with the
\* token's subject available through GetUserIDFromContext; a request without
\* a valid token gets 401 and never reaches next.
C18_RequireAuth ==
    authPc = "done" =>
        /\ BearerIssued =>
            /\ nextCalls = 1
            /\ GetUserFromContext(nextCtx) = [ok |-> TRUE, val |-> authHeader.tok.sub]
        /\ ~(BearerValid /\ jwtCfg.SecretKey # "") =>
            /\ authStatus = 401
            /\ nextCalls = 0

\* C19: behind JWTAuthMiddleware next runs if and only if the header is
\* "Bearer " followed by a valid token HMAC-signed with config.SecretKey; in
\* every other case the answer is 401 and next does not run; when next runs,
\* the token's claims are available through GetJWTUserFromContext.
C19_JWTAuthMiddleware ==
    /\ nextCalls <= 1
    /\ authPc \in {"next", "done"} =>
        /\ (authPc = "next" \/ nextCalls = 1) <=> BearerValid
        /\ ~BearerValid => authPc = "done" /\ authStatus = 401 /\ nextCalls = 0
        /\ BearerValid =>
            GetUserFromContext(nextCtx) =
                [ok |-> TRUE,
                 val |-> [sub |-> authHeader.tok.sub, uid |-> authHeader.tok.uid,
                          exp |-> authHeader.tok.exp, nbf |-> authHeader.tok.nbf]]

\* next has served a request that carried a valid Bearer token.
C19_Witness ==
    /\ authPc = "done"
    /\ nextCalls = 1
    /\ authStatus = 200
    /\ BearerValid
    /\ jwtCfg.SecretKey = "k1"
    /\ now = 1

\* A request whose token is signed with another key has been answered 401.
C19_WitnessRejected ==
    /\ authPc = "done"
    /\ authStatus = 401
    /\ authHeader.scheme = "Bearer "
    /\ authHeader.tok.form = "jwt"
    /\ authHeader.tok.key = "k2"

\* The Init calls that have returned without an error.
Succeeded == {g \in DOMAIN initRet : initPc[g] = "done" /\ initRet[g].err = "nil"}

\* C20: under every interleaving of concurrent Init calls that start with no
\* global instance, all calls that succeed return one and the same non-nil
\* instance, and Global() returns that instance from then on.
C20_OneInstance ==
    \A g \in Succeeded :
        /\ initRet[g].obs # 0
        /\ initRet[g].obs = Global
        /\ \A h \in Succeeded : initRet[h].obs = initRet[g].obs

\* Two calls both found no global instance, both started their providers,
\* and both have returned successfully.
C20_Witness ==
    /\ Cardinality(objects) >= 2
    /\ \E g, h \in Succeeded :
        /\ g # h
        /\ {g, h} \subseteq objects
        /\ initRet[g].obs = g
        /\ initRet[h].obs = g

\* C21: the attempts of one Do call run one after the other: never more than
\* MaxRetries+1 of them, only the last one can be under way, the i-th sleep
\* (counting from 0) follows attempt i and uses exponent i, attempt i+1
\* starts only when that sleep is over, and no sleep follows the last attempt.
C21_SequentialAttempts ==
    /\ Len(hist) <= cfg.MaxRetries + 1
    /\ \A i \in 1..Len(hist) : ~EndedAt(i) => i = Len(hist) /\ pc \in {"httpDo", "readBody"}
    /\ pc \in {"httpDo", "readBody"} => Len(hist) >= 1 /\ ~EndedAt(Len(hist))
    /\ \A i \in 1..Len(sleeps) : sleeps[i].exp = i - 1 /\ sleeps[i].exp < cfg.MaxRetries
    /\ pc \in {"sleep", "loop"} => Len(sleeps) = Len(hist)
    /\ pc = "sleep" => attempt = Len(hist) - 1
    /\ pc \in {"loop", "httpDo", "readBody"} => attempt = Len(sleeps)
    /\ pc \in {"httpDo", "readBody"} => Len(hist) = Len(sleeps) + 1
    /\ Done /\ Len(hist) >= 1 => Len(sleeps) = Len(hist) - 1
    /\ Len(hist) = 0 => Len(sleeps) = 0

\* A call that made three attempts and slept twice has returned.
C21_Witness ==
    /\ Done
    /\ Len(hist) = 3
    /\ Len(sleeps) = 2
    /\ sleeps[1].exp = 0
    /\ sleeps[2].exp = 1

\* The values BaseHeaders configures for the header name of k, under any
\* letter case.
BaseValues(k) ==
    {cfg.BaseHeaders[k2] : k2 \in {x \in DOMAIN cfg.BaseHeaders : lower(x) = lower(k)}}

\* C22: on every attempt each of User-Agent, Accept and Accept-Language that
\* the caller did not supply under any letter case carries the auto-filled
\* value (a member of the pool, or the default string when the pool is empty;
\* "*/*"; "en-US,en;q=0.9"), whatever BaseHeaders holds for it; every other
\* BaseHeaders name the caller does not supply carries its configured value
\* (one of them when BaseHeaders holds the name under several letter cases).
C22_AutoFilledHeaders ==
    Len(hist) >= 1 =>
        /\ ~headerLookup(req.Headers, "User-Agent") =>
            reqHeader["User-Agent"] \in
                (IF cfg.UserAgents = <<>> THEN {"Mozilla/5.0 (iPhone)"}
                 ELSE {cfg.UserAgents[i] : i \in DOMAIN cfg.UserAgents})
        /\ ~headerLookup(req.Headers, "Accept") => reqHeader["Accept"] = "*/*"
        /\ ~headerLookup(req.Headers, "Accept-Language") =>
            reqHeader["Accept-Language"] = "en-US,en;q=0.9"
        /\ \A k \in DOMAIN cfg.BaseHeaders :
            (/\ lower(k) \notin {"user-agent", "accept", "accept-language"}
             /\ ~headerLookup(req.Headers, k))
            => reqHeader[canonicalKey(k)] \in BaseValues(k)

\* The second attempt of a call without a User-Agent of its own goes out with
\* the pool's second entry although BaseHeaders holds a User-Agent.
C22_Witness ==
    /\ Len(hist) = 2
    /\ "User-Agent" \in DOMAIN cfg.BaseHeaders
    /\ ~headerLookup(req.Headers, "User-Agent")
    /\ reqHeader["User-Agent"] = "ua2"
    /\ reqHeader["X-Base"] = "1"
    /\ reqHeader["Accept-Language"] = "de"

\* The state a call ends in when it runs alone from local state l.
RECURSIVE SoloRun(_)
SoloRun(l) == IF l.pc = "done" THEN l ELSE SoloRun(doStep(l, l.attempt))

\* C23: whatever the interleaving of the calls on one client, the client's
\* Config stays what normalization made it, and a call that has returned
\* made as many attempts, slept as often and returned the same as it does
\* running alone against the same server outcomes.
C23_IndependentCalls ==
    /\ cfg = New(callerCfg)
    /\ \A c \in DOMAIN calls :
        calls[c].pc = "done" =>
            LET solo == SoloRun(callStart(calls[c].script))
            IN  /\ calls[c].made = solo.made
                /\ calls[c].slept = solo.slept
                /\ calls[c].ret = solo.ret

\* Two calls have returned on one client: one after three attempts with the
\* max-retries error, the other with its first response.
C23_Witness ==
    /\ DOMAIN calls = Calls
    /\ calls["c1"].pc = "done"
    /\ calls["c2"].pc = "done"
    /\ calls["c1"].made = 3
    /\ calls["c1"].slept = 2
    /\ ErrorsIs(calls["c1"].ret.err, ErrMaxRetries)
    /\ calls["c2"].made = 1
    /\ calls["c2"].ret.err = NilErr


\* --------------------------------------------------------- package events
\* KafkaConsumer.Run with a SagaMessageProcessor set. A message value is
\* described by what encoding/json makes of it: its top-level form, the raw
\* values under the keys saga_id and type, and how the raw payload fares
\* against the struct of its event type.

\* The number of messages ReadMessage returns before it returns an error.
MaxMessages == 2

\* topics.go; the two vectorize constants the switch also names are declared
\* outside these sources.
KnownEventTypes ==
    {"pipeline.extract_reviews.request", "pipeline.extract_reviews.completed",
     "pipeline.prepare_reviews.request", "pipeline.prepare_reviews.completed",
     "pipeline.failed", "saga.orchestrator.state.changed"}

Missing == [kind |-> "missing", str |-> ""]

\* A json.RawMessage under a key of the envelope, or the key missing.
RawValues ==
    {Missing, [kind |-> "null", str |-> ""], [kind |-> "number", str |-> "7"]}
        \cup [kind : {"string"}, str : {"saga-1", "unknown.type", "pipeline.failed"}]

\* kafka.Message.Value
Messages ==
    [form : {"garbage", "array"}, saga_id : {Missing}, type : {Missing}, payload : {"missing"}]
        \cup [form : {"object"},
              saga_id : {v \in RawValues : v.str \in {"", "7", "saga-1"}},
              type : {v \in RawValues : v.str \in {"", "unknown.type", "pipeline.failed"}
                                        /\ v.kind # "number"},
              payload : {"missing", "malformed", "invalid", "valid"}]

\* json.Unmarshal(raw, &s) for a string s that holds "": a JSON string is
\* stored, the JSON null leaves s alone without an error, any other value is
\* an error.
jsonUnmarshalString(raw) ==
    IF raw.kind = "string" THEN [err |-> FALSE, val |-> raw.str]
    ELSE IF raw.kind = "null" THEN [err |-> FALSE, val |-> ""]
    ELSE [err |-> TRUE, val |-> ""]

\* json.Unmarshal(m.Value, &rawEnvelope)
jsonUnmarshalEnvelope(m) == [err |-> m.form # "object"]

extractAndValidatePayload(m, eventType) ==
    IF m.payload = "missing" THEN [err |-> TRUE]
    ELSE IF eventType \notin KnownEventTypes THEN [err |-> TRUE]
    ELSE [err |-> m.payload # "valid"]

\* The body of the loop of Run after ReadMessage: whether Handle is called,
\* and with which sagaID.
runMessage(m) ==
    LET sagaID == jsonUnmarshalString(m.saga_id)
        eventType == jsonUnmarshalString(m.type)
        skip == [handle |-> FALSE, sagaID |-> ""]
    IN  IF jsonUnmarshalEnvelope(m).err THEN skip
        ELSE IF m.saga_id = Missing \/ sagaID.err THEN skip
        ELSE IF m.type = Missing \/ eventType.err THEN skip
        ELSE IF extractAndValidatePayload(m, eventType.val).err THEN skip
        ELSE [handle |-> TRUE, sagaID |-> sagaID.val]

ReadErrors == {"context canceled", "fetching message: EOF"}

InitKafka ==
    /\ reads = <<>>
    /\ handled = <<>>
    /\ runRet = "running"
    /\ refreshRet = [tok |-> [form |-> "empty"], err |-> "none", at |-> 0]
    /\ shutdownOnce = <<>>
    /\ isShutdown = <<>>
    /\ providerOps = <<>>
    /\ shutPc = <<>>
    /\ shutRet = <<>>
    /\ HttpIdle
    /\ AuthIdle
    /\ ObsIdle

\* One turn of the loop in which ReadMessage returns an error.
RunReadError ==
    /\ runRet = "running"
    /\ \E e \in ReadErrors : runRet' = e
    /\ UNCHANGED <<reads, handled, refreshRet, shutdownVars, httpVars, authVars, obsVars>>

\* One turn of the loop in which ReadMessage returns a message; Handle, when
\* it is called, returns nil or an error.
RunMessage ==
    /\ runRet = "running"
    /\ Len(reads) < MaxMessages
    /\ \E m \in Messages, herr \in {"nil", "handle failed"} :
        LET r == runMessage(m)
        IN  /\ reads' = Append(reads, m)
            /\ IF r.handle
               THEN handled' = Append(handled, [at |-> Len(reads) + 1,
                                                 sagaID |-> r.sagaID, err |-> herr])
               ELSE /\ handled' = handled
                    /\ herr = "nil"
    /\ UNCHANGED <<runRet, refreshRet, shutdownVars, httpVars, authVars, obsVars>>

NextKafka ==
    \/ RunReadError
    \/ RunMessage

SpecKafka == InitKafka /\ [][NextKafka]_vars

\* The read positions of the messages that are a JSON object with a string
\* saga_id, a string type that names a known event type, and a payload that
\* unmarshals and validates.
EligibleReads ==
    {i \in 1..Len(reads) :
        /\ reads[i].form = "object"
        /\ reads[i].saga_id.kind = "string"
        /\ reads[i].type.kind = "string"
        /\ reads[i].type.str \in KnownEventTypes
        /\ reads[i].payload = "valid"}

\* C24: Run calls Handle exactly once, in read order, for each message that
\* is valid JSON with a string saga_id, a string type naming a known event
\* type and a payload that unmarshals and validates, and for no other
\* message; neither an invalid message nor an error of Handle stops the loop;
\* Run returns only the error ReadMessage returned.
C24_HandleCalls ==
    /\ \A i \in 1..Len(handled) - 1 : handled[i].at < handled[i + 1].at
    /\ {handled[i].at : i \in 1..Len(handled)} = EligibleReads
    /\ Len(handled) = Cardinality(EligibleReads)
    /\ runRet \in {"running"} \cup ReadErrors


\* Do calls of a POST with a Body: an io.Reader over two chunks, none of it
\* read yet (strings.NewReader as in TestDoWithBody), or no Body.
InitBody ==
    /\ callerCfg \in {c \in Configs : c.MaxRetries >= 1}
    /\ cfg = New(callerCfg)
    /\ req \in [Method : {"POST"}, URL : {<<"http", ":", "//h/p">>},
                 Params : {EmptyParams}, Headers : {EmptyHeaders}]
    /\ reqBody \in {NoBody, [data |-> <<"test", "body">>, off |-> 0]}
    /\ ctxDone = FALSE
    /\ ctxAtCall = FALSE
    /\ pc = "call"
    /\ u = EmptyString
    /\ attempt = 0
    /\ reqHeader = EmptyHeaders
    /\ lastErr = NilErr
    /\ resp = NoResp
    /\ ret = NoReturn
    /\ hist = <<>>
    /\ sleeps = <<>>
    /\ calls = <<>>
    /\ AuthIdle
    /\ ObsIdle
    /\ MoreIdle

SpecBody == InitBody /\ [][Next]_vars

\* C25: every attempt of one Do call sends the same method, URL and request
\* body as the first attempt; a retry transmits the full body bytes again.
C25_SameRequest ==
    \A i \in 1..Len(hist) :
        /\ hist[i].method = hist[1].method
        /\ hist[i].url = hist[1].url
        /\ hist[i].sent = hist[1].sent
        /\ hist[i].sent = reqBody.data


\* ------------------------------------------------ package auth, refreshing
\* new(jwt.Parser).ParseUnverified(s, claims): the string must have the three
\* segments of a JWT and name a registered signing method ("none" is one);
\* neither the signature nor the claims are looked at.
ParseUnverified(s) ==
    IF s.scheme # "" \/ s.tok.form # "jwt" THEN [err |-> TRUE]
    ELSE [err |-> FALSE,
          claims |-> [sub |-> s.tok.sub, uid |-> s.tok.uid,
                      exp |-> s.tok.exp, nbf |-> s.tok.nbf]]

\* RefreshJWTToken(tokenString, config) at time t.
RefreshJWTToken(s, c, t) ==
    LET p == ParseUnverified(s)
    IN  IF p.err THEN [tok |-> EmptyTok, err |-> "failed to parse token", at |-> t]
        ELSE [tok |-> [form |-> "jwt", alg |-> "HS256", key |-> c.SecretKey,
                       sub |-> p.claims.sub, uid |-> p.claims.uid,
                       exp |-> t + c.TokenDuration, nbf |-> p.claims.nbf],
              err |-> "nil", at |-> t]

\* ValidateJWTToken(tokenString, config) at time t.
ValidateJWTToken(s, c, t) ==
    LET p == ParseWithClaims(s, c.SecretKey, t)
    IN  IF p.err THEN [err |-> TRUE]
        ELSE IF ~p.valid THEN [err |-> TRUE]
        ELSE [err |-> FALSE, claims |-> p.claims]

\* A caller hands some token string to RefreshJWTToken.
Refresh ==
    /\ authPc = "idle"
    /\ \E tok \in Tokens :
        /\ authHeader' = [scheme |-> "", tok |-> tok]
        /\ refreshRet' = RefreshJWTToken(authHeader', jwtCfg, now)
    /\ UNCHANGED <<jwtCfg, now, authPc, authStatus, nextCalls, nextCtx,
                   kafkaVars, shutdownVars, httpVars, obsVars>>

NextRefresh ==
    \/ Tick
    \/ Refresh

SpecRefresh == InitJWTAuth /\ [][NextRefresh]_vars

\* C26: RefreshJWTToken returns a newly signed token only for an input token
\* that ValidateJWTToken accepts under the same config at that time; for any
\* other token it returns an error and issues nothing.
C26_RefreshOnlyValid ==
    refreshRet.err # "none" =>
        IF ValidateJWTToken(authHeader, jwtCfg, refreshRet.at).err
        THEN refreshRet.err # "nil" /\ refreshRet.tok = EmptyTok
        ELSE refreshRet.err = "nil"


\* The sentinels of package httpx and of package context that e matches.
Sentinels(e) ==
    {s \in {"ErrEmptyURL", "ErrInvalidURL", "ErrMaxRetries", "context"} : s \in e.is}

\* C27: every non-nil error Do returns falls in exactly one class: it matches
\* exactly one of ErrEmptyURL, ErrInvalidURL, ErrMaxRetries and the caller's
\* context error, or it matches none of them and wraps a build, transport or
\* body-read error; ErrMaxRetries is returned only after at least two
\* attempts, and ErrNonRetryableResp never.
C27_ErrorClasses ==
    (Done /\ ret.err # NilErr) =>
        /\ Cardinality(Sentinels(ret.err)) <= 1
        /\ Sentinels(ret.err) = {} =>
                /\ ret.err.is \cap {"method", "transport", "read"} # {}
                /\ ret.err.msg \in {"httpx: build request", "httpx: request failed",
                                    "httpx: read body"}
        /\ ErrorsIs(ret.err, CtxErr) => ctxDone
        /\ ErrorsIs(ret.err, ErrMaxRetries) => Len(hist) >= 2
        /\ ~ErrorsIs(ret.err, ErrNonRetryableResp)

C27_Witness ==
    /\ Done
    /\ ErrorsIs(ret.err, ErrMaxRetries)
    /\ Len(hist) = cfg.MaxRetries + 1
    /\ ctxDone


\* ------------------------------------------------- the caller's Config
\* New takes its Config by value: the scalar fields of the client's copy are
\* its own, while the BaseHeaders map and the arrays under the UserAgents and
\* RetryStatus slices are the caller's. A RetryStatus that normalizeConfig
\* filled in is a fresh array.

\* The map m after m[k] = v.
mapStore(m, k, v) == [x \in DOMAIN m \cup {k} |-> IF x = k THEN v ELSE m[x]]

InitAlias ==
    /\ callerCfg \in {c \in Configs : c.MaxRetries = 1 /\ c.RetryOn = "nil"}
    /\ cfg = New(callerCfg)
    /\ req \in [Method : {""}, URL : {<<"http", ":", "//h/p">>},
                 Params : {EmptyParams},
                 Headers : {EmptyHeaders, [k \in {"user-agent"} |-> "mine"]}]
    /\ ctxDone = FALSE
    /\ ctxAtCall = FALSE
    /\ pc = "call"
    /\ u = EmptyString
    /\ attempt = 0
    /\ reqHeader = EmptyHeaders
    /\ lastErr = NilErr
    /\ resp = NoResp
    /\ ret = NoReturn
    /\ hist = <<>>
    /\ sleeps = <<>>
    /\ reqBody = NoBody
    /\ calls = <<>>
    /\ AuthIdle
    /\ ObsIdle
    /\ MoreIdle

\* After New has returned and before the Do call, the caller changes the
\* Config value it passed in: a scalar field, an entry of the BaseHeaders map,
\* an element of the UserAgents slice or an element of the RetryStatus slice.
CallerMutates ==
    /\ pc = "call"
    /\ \/ /\ callerCfg' = [callerCfg EXCEPT !.MaxRetries = 0]
          /\ cfg' = cfg
       \/ \E k \in {"X-Base", "X-Added"} :
            /\ callerCfg' = [callerCfg EXCEPT
                                !.BaseHeaders = mapStore(@, k, "changed")]
            /\ cfg' = [cfg EXCEPT !.BaseHeaders = callerCfg'.BaseHeaders]
       \/ /\ Len(callerCfg.UserAgents) > 0
          /\ callerCfg' = [callerCfg EXCEPT !.UserAgents[1] = "ua-changed"]
          /\ cfg' = [cfg EXCEPT !.UserAgents = callerCfg'.UserAgents]
       \/ /\ callerCfg.RetryStatus # {}
          /\ callerCfg' = [callerCfg EXCEPT !.RetryStatus = {200}]
          /\ cfg' = [cfg EXCEPT !.RetryStatus = callerCfg'.RetryStatus]
    /\ UNCHANGED <<req, ctxDone, ctxAtCall, pc, u, attempt, reqHeader, lastErr,
                   resp, ret, hist, sleeps, reqBody, calls,
                   authVars, obsVars, moreVars>>

NextAlias ==
    \/ CallerMutates
    \/ Next

SpecAlias == InitAlias /\ [][NextAlias]_vars

\* C28: changes the caller makes to its Config after New has returned do not
\* change a later Do call: no header sent carries a value the caller stored
\* into BaseHeaders or UserAgents after New, and no answer is retried on a
\* status the caller stored into RetryStatus after New.
C28_ConfigFrozen ==
    /\ \A k \in DOMAIN reqHeader : reqHeader[k] \notin {"changed", "ua-changed"}
    /\ \A i \in 1..(Len(hist) - 1) : hist[i].status # 200


\* C29: across concurrent Init calls the provider constructors run at most
\* once: at most one *Observability ever has its providers started, so no
\* call starts a second set that it then drops for the global instance.
C29_BuildOnce ==
    /\ Cardinality(objects) <= 1
    /\ \A g \in DOMAIN initRet :
        (initRet[g].err = "nil" /\ initRet[g].obs # 0) => objects \subseteq {initRet[g].obs}


\* ------------------------------------------------- package obs, Shutdown
\* Shutdown calls run side by side with the Init calls. A caller reaches an
\* *Observability only through Init, Global or the package function
\* Shutdown, all of which hand out globalObs. Two Shutdown calls are
\* sequential when one returns before the other starts and concurrent
\* otherwise.

\* The number of Shutdown calls.
ShutdownCalls == 2

\* sync.Once.Do entered with every call running the function again.
onceDoEveryCall(once) == IF once = "running" THEN "wait" ELSE "run"

\* sync.Once.Do, by the state of the Once: the first caller runs the
\* function, a caller that arrives while it runs waits for it, a caller that
\* arrives later returns at once.
onceDo(once) ==
    CASE once = "new" -> "run"
      [] once = "running" -> "wait"
      [] OTHER -> "skip"

NotReturned == [err |-> "none", ran |-> FALSE, obs |-> 0]

\* Goroutine 1 may pass an invalid Config to Init.
InitShutdown ==
    /\ globalObs = 0
    /\ obsCfg \in {f \in [Goroutines -> ObsConfigs] :
                      \A g \in Goroutines \ {1} : Validate(f[g]) = "nil"}
    /\ initPc = [g \in Goroutines |-> "call"]
    /\ initObs = [g \in Goroutines |-> 0]
    /\ initRet = [g \in Goroutines |-> [obs |-> 0, err |-> "none"]]
    /\ objects = {}
    /\ HttpIdle
    /\ AuthIdle
    /\ reads = <<>>
    /\ handled = <<>>
    /\ runRet = "idle"
    /\ refreshRet = [tok |-> [form |-> "empty"], err |-> "none", at |-> 0]
    /\ shutdownOnce = [o \in Goroutines |-> "new"]
    /\ isShutdown = [o \in Goroutines |-> FALSE]
    /\ providerOps = [o \in Goroutines |-> <<>>]
    /\ shutPc = [c \in 1..ShutdownCalls |-> [at |-> "idle", obs |-> 0]]
    /\ shutRet = [c \in 1..ShutdownCalls |-> NotReturned]

\* The package function Shutdown up to the call of obs.Shutdown, or a call
\* of Shutdown on the instance Init or Global returned.
ShutdownCall(c) ==
    /\ shutPc[c].at = "idle"
    /\ IF Global = 0
       THEN /\ shutRet' = [shutRet EXCEPT ![c] =
                              [err |-> "ErrNotInitialized", ran |-> FALSE, obs |-> 0]]
            /\ shutPc' = [shutPc EXCEPT ![c].at = "done"]
       ELSE /\ shutPc' = [shutPc EXCEPT ![c] = [at |-> "once", obs |-> Global]]
            /\ UNCHANGED shutRet
    /\ UNCHANGED <<shutdownOnce, isShutdown, providerOps,
                   kafkaVars, refreshRet, httpVars, authVars, obsVars>>

\* o.shutdownOnce.Do: run the function, or return shutdownErr, still nil,
\* when the function has run already; while it runs the caller waits.
ShutdownOnce(c) ==
    /\ shutPc[c].at = "once"
    /\ LET o == shutPc[c].obs
           do == onceDo(shutdownOnce[o])
       IN  /\ do # "wait"
           /\ IF do = "run"
              THEN /\ shutdownOnce' = [shutdownOnce EXCEPT ![o] = "running"]
                   /\ shutPc' = [shutPc EXCEPT ![c].at = "body"]
                   /\ UNCHANGED shutRet
              ELSE /\ shutRet' = [shutRet EXCEPT ![c] =
                                     [err |-> "nil", ran |-> FALSE, obs |-> o]]
                   /\ shutPc' = [shutPc EXCEPT ![c].at = "done"]
                   /\ UNCHANGED shutdownOnce
    /\ UNCHANGED <<isShutdown, providerOps,
                   kafkaVars, refreshRet, httpVars, authVars, obsVars>>

\* The function under shutdownOnce, with o.mu held: flush and shut down the
\* providers, each of which may fail, and set isShutdown. An instance a
\* caller can reach has initErr nil.
ShutdownBody(c) ==
    /\ shutPc[c].at = "body"
    /\ LET o == shutPc[c].obs
       IN  /\ IF isShutdown[o]
              THEN /\ shutRet' = [shutRet EXCEPT ![c] =
                                     [err |-> "already shutdown", ran |-> TRUE, obs |-> o]]
                   /\ UNCHANGED <<isShutdown, providerOps>>
              ELSE \E outcome \in {"nil", "ErrShutdownFailed"} :
                   /\ providerOps' = [providerOps EXCEPT ![o] = Append(@, outcome)]
                   /\ isShutdown' = [isShutdown EXCEPT ![o] = TRUE]
                   /\ shutRet' = [shutRet EXCEPT ![c] =
                                     [err |-> outcome, ran |-> TRUE, obs |-> o]]
           /\ shutdownOnce' = [shutdownOnce EXCEPT ![o] = "done"]
    /\ shutPc' = [shutPc EXCEPT ![c].at = "done"]
    /\ UNCHANGED <<kafkaVars, refreshRet, httpVars, authVars, obsVars>>

NextShutdown ==
    \/ NextObs
    \/ \E c \in 1..ShutdownCalls : ShutdownCall(c)
    \/ \E c \in 1..ShutdownCalls : ShutdownOnce(c)
    \/ \E c \in 1..ShutdownCalls : ShutdownBody(c)

SpecShutdown == InitShutdown /\ [][NextShutdown]_vars


\* The Shutdown calls that have returned after reaching an instance.
Returned == {c \in DOMAIN shutRet : shutPc[c].at = "done" /\ shutRet[c].obs # 0}

\* The providers of every instance are flushed and shut down at most once, by
\* at most one call, which returns the outcome; any other call that reached
\* the instance returned nil after that.
ShutdownRunsOnce ==
    /\ \A o \in DOMAIN providerOps : Len(providerOps[o]) <= 1
    /\ \A c \in Returned :
        LET o == shutRet[c].obs
        IN  IF shutRet[c].ran
            THEN /\ providerOps[o] = <<shutRet[c].err>>
                 /\ \A d \in Returned : (shutRet[d].obs = o /\ shutRet[d].ran) => d = c
            ELSE /\ shutRet[c].err = "nil"
                 /\ shutdownOnce[o] = "done"
                 /\ isShutdown[o]

\* A step never clears or replaces a global instance, and an Init call that
\* has not passed its first check when the global instance is shut down
\* builds nothing and returns that instance or a configuration error.
ShutdownIsTerminal ==
    /\ globalObs # 0 => globalObs' = globalObs
    /\ \A g \in DOMAIN initPc :
        (/\ globalObs # 0
         /\ isShutdown[globalObs]
         /\ initPc[g] \in {"call", "check"}
         /\ initPc'[g] # initPc[g])
            => /\ initPc'[g] # "build"
               /\ objects' = objects
               /\ initPc'[g] = "done" =>
                    \/ initRet'[g] = [obs |-> globalObs, err |-> "nil"]
                    \/ initRet'[g] = [obs |-> 0, err |-> "invalid configuration"]

\* C30: Shutdown of an instance is terminal and runs once: the first call
\* flushes and shuts the providers down and returns that outcome, every later
\* call returns nil without touching the providers, and the global instance
\* is never cleared or replaced, so an Init made after Shutdown returns the
\* same, shut-down instance without building new providers.
C30_ShutdownOnce == [](ShutdownRunsOnce) /\ [][ShutdownIsTerminal]_vars

\* One call has shut the global instance down and failed in doing so, another
\* call has returned nil, and an Init call by a goroutine that built nothing
\* has returned the shut-down instance.
C30_Witness ==
    /\ globalObs # 0
    /\ isShutdown[globalObs]
    /\ objects = {globalObs}
    /\ \E c, d \in Returned :
        /\ shutRet[c] = [err |-> "ErrShutdownFailed", ran |-> TRUE, obs |-> globalObs]
        /\ shutRet[d] = [err |-> "nil", ran |-> FALSE, obs |-> globalObs]
    /\ \E g \in DOMAIN initRet :
        /\ g # globalObs
        /\ initObs[g] = 0
        /\ initRet[g] = [obs |-> globalObs, err |-> "nil"]

====
